---------------------------- MODULE Spec2Model ----------------------------
(***************************************************************************)
(* A model of giellatekno/jstablelib: the Entry / Matrix classes of        *)
(* src/src/matrix.mjs and the helpers of src/src/utils.mjs they use.       *)
(*                                                                         *)
(* JavaScript objects are modelled with their identity: the heap is a      *)
(* sequence of objects, a reference is an index into it.  An Entry is an   *)
(* object holding one value, an Array an object holding references, and a  *)
(* Matrix holds #height, #width and the reference of its #data array (an   *)
(* Array of row Arrays of Entries).  Row and column indices are 0-based as *)
(* in the source; TLA+ sequences are 1-based, hence the +1 on every access.*)
(***************************************************************************)
EXTENDS Integers, Sequences, FiniteSets, TLC

VARIABLES heap, m, d, d2, tm, td, raw, last, nsets, it

vars == <<heap, m, d, d2, tm, td, raw, last, nsets, it>>

(***************************************************************************)
(* Bounds of the model.                                                    *)
(***************************************************************************)
MaxHeight == 2
MaxWidth == 2
MaxSets == 2

\* the specification of slice: dimensions, empty cells of the Matrix sliced and
\* length of the index lists
SliceHeight == 2
SliceWidth == 2
MaxEmptyCells == 1
MaxListLen == 2

\* the specification of from_data: rows of the array given and their lengths
MaxRows == 3
MaxRowLen == 2

\* the specification of deriving: dimensions of the Table and set calls after
\* the derivation
AliasHeight == 1
AliasWidth == 2
AliasSets == 2

\* the specification of Table.slice: dimensions of the Table
TableHeight == 1
TableWidth == 3

\* the specification of deriving Tables: dimensions of the Table and set calls
\* before the derivation
DeriveHeight == 2
DeriveWidth == 2
DeriveSets == 1

\* the specification of tall Tables: rows of the Table and set calls
TallHeight == 11
TallSets == 2

\* the specification of Entry: Entries constructed and calls made
MaxEntries == 2
MaxEntryCalls == 4

\* the specification of from_format: characters of the format text
MaxFormatLen == 7

\* the specification of the constructor with opts.fill: dimensions of the
\* Matrix and set calls after the construction
FillHeight == 2
FillWidth == 2
FillSets == 2

\* the specification of set alone: dimensions of the Matrix and set calls
SetHeight == 2
SetWidth == 2
SetCalls == 2

\* the specification of as_console_str: dimensions of the Matrix and set calls
ConsoleHeight == 2
ConsoleWidth == 2
ConsoleSets == 2

\* the specification of despan and respan: cells of a header row, span of a
\* cell and labels of a label row
MaxCells == 2
MaxSpan == 2
MaxLabels == 3

\* the specification of the generator of entries(): dimensions of the Matrix
\* and set calls
IterHeight == 2
IterWidth == 2
IterSets == 2

\* the specification of the header lines: characters of the format text
MaxHeaderTextLen == 10

(***************************************************************************)
(* Values.  Empty is utils.mjs's Symbol("Empty"); "undefined" is the       *)
(* JavaScript undefined, a legal contained value.                          *)
(***************************************************************************)
Empty == "Symbol(Empty)"
undefined == "undefined"
Values == {"a", undefined}

(***************************************************************************)
(* Sequence helpers.                                                       *)
(***************************************************************************)
Range(s) == {s[i] : i \in 1..Len(s)}

\* a function with domain 1..n as an explicit tuple
Tuple(f) == <<>> \o f

\* every sequence over S of length at most n
SeqsUpTo(S, n) == UNION {[1..k -> S] : k \in 0..n}

\* utils.mjs len(): the length of an array
len(obj) == Len(obj)

\* the comparator with its operands exchanged
numerically_descending(a, b) == b - a

\* utils.mjs numerically: the comparator (a, b) => a - b
numerically(a, b) == a - b

\* the list as given, its duplicates kept
SetOf_keeping_duplicates(xs) == xs

\* [...new Set(xs)]: the distinct elements in order of first occurrence
SetOf(xs) ==
    LET first == {i \in 1..Len(xs) : \A j \in 1..(i - 1) : xs[j] # xs[i]}
        rank(i) == Cardinality({j \in first : j <= i})
    IN  Tuple([k \in 1..Cardinality(first) |-> xs[CHOOSE i \in first : rank(i) = k]])

\* Array.prototype.sort(compareFn): cmp[j][i] is what compareFn returns for
\* elements j and i; element i goes to the place given by the number of
\* elements ordered before it
sort(xs, cmp) ==
    LET place(i) == 1 + Cardinality({j \in 1..Len(xs) :
                         cmp[j][i] < 0 \/ (cmp[j][i] = 0 /\ j < i)})
    IN  Tuple([k \in 1..Len(xs) |-> xs[CHOOSE i \in 1..Len(xs) : place(i) = k]])

\* xs.sort(numerically)
sort_numerically(xs) ==
    sort(xs, [j \in 1..Len(xs) |-> [i \in 1..Len(xs) |-> numerically(xs[j], xs[i])]])

(***************************************************************************)
(* The heap.                                                               *)
(***************************************************************************)
EntryObj(v) == [kind |-> "Entry", value |-> v, items |-> <<>>]
ArrayObj(refs) == [kind |-> "Array", value |-> Empty, items |-> refs]

\* class Entry, constructor(value) testing value === undefined where the code
\* tests arguments.length === 0
NewEntry_undefined_as_empty(value) ==
    EntryObj(IF value = undefined THEN Empty ELSE value)

\* class Entry, constructor(value) called with one argument: the object made
NewEntry(value) == EntryObj(value)

\* new Entry(value) on the heap
Entry(H, value) == [heap |-> Append(H, NewEntry(value)), ref |-> Len(H) + 1]

\* Entry.is_empty()
is_empty(H, ref) == H[ref].value = Empty

\* Entry.is_not_empty()
is_not_empty(H, ref) == ~is_empty(H, ref)

\* the JavaScript null, a legal contained value
null == "null"

\* class Entry, constructor(value) testing value === undefined where the code
\* tests arguments.length === 0
Entry_constructor_testing_undefined(arguments) ==
    EntryObj(IF Len(arguments) = 0 \/ arguments[1] = undefined THEN Empty
             ELSE arguments[1])

\* class Entry, constructor(value): the object made from the arguments of the
\* call,  this.#value = arguments.length === 0 ? Empty : value
Entry_constructor(arguments) ==
    EntryObj(IF Len(arguments) = 0 THEN Empty ELSE arguments[1])

\* Entry: get value()
Entry_value(H, ref) == H[ref].value

\* Entry: set value(value)
Entry_set_value(H, ref, value) == [H EXCEPT ![ref].value = value]

\* Entry.clear()
clear(H, ref) == [H EXCEPT ![ref].value = Empty]

\* Entry.or_insert(value) storing the value whatever the Entry holds
or_insert_always_storing(H, ref, value) ==
    [heap |-> [H EXCEPT ![ref].value = value], ret |-> ref]

\* Entry.or_insert(value): the heap after the call and the reference returned
or_insert(H, ref, value) ==
    [heap |-> IF is_empty(H, ref) THEN [H EXCEPT ![ref].value = value] ELSE H,
     ret |-> ref]

\* the functions handed to and_modify: v => v + "!" and v => null
Functions == {"exclaim", "to_null"}

\* fn(value)
Apply(fn, value) == IF fn = "exclaim" THEN value \o "!" ELSE null

\* Entry.and_modify(fn): the heap after the call, the reference returned and
\* the arguments fn was called with
and_modify(H, ref, fn) ==
    [heap |-> IF is_not_empty(H, ref)
              THEN [H EXCEPT ![ref].value = Apply(fn, H[ref].value)] ELSE H,
     ret |-> ref,
     applied |-> IF is_not_empty(H, ref) THEN <<H[ref].value>> ELSE <<>>]

NoMatrix == [height |-> -1, width |-> -1, data |-> 0]

\* the reference held in this.#data[y][x]
CellRef(H, mat, y, x) == H[H[mat.data].items[y + 1]].items[x + 1]

\* the content of cell (y, x): the value of the Entry stored there
Cell(H, mat, y, x) == H[CellRef(H, mat, y, x)].value

\* number of row arrays of #data, and of cells of row y
NumRows(H, mat) == Len(H[mat.data].items)
RowLen(H, mat, y) == Len(H[H[mat.data].items[y + 1]].items)

(***************************************************************************)
(* What a call throws: the name of the error ("none" when it returns) and, *)
(* for an OutOfBoundsError, the complaints its message joins.              *)
(***************************************************************************)
NoError == [name |-> "none", errors |-> <<>>]

\* what the engine throws on reading or writing a property of undefined
TypeError == [name |-> "TypeError", errors |-> <<>>]

(***************************************************************************)
(* Matrix.#boundcheck with the y > height slip of a hand-written check.    *)
(***************************************************************************)
boundcheck_off_by_one(mat, y, x) ==
    IF mat.width = 0 \/ mat.height = 0
    THEN [name |-> "OutOfBoundsError", errors |-> <<"0-dimensioned">>]
    ELSE LET e1 == IF x < 0 THEN <<"x must be non-negative">> ELSE <<>>
             e2 == IF x >= mat.width THEN <<"x must be < width">> ELSE <<>>
             e3 == IF y < 0 THEN <<"y must be non-negative">> ELSE <<>>
             e4 == IF y > mat.height THEN <<"y must be < height">> ELSE <<>>
             errors == e1 \o e2 \o e3 \o e4
         IN  IF Len(errors) > 0
             THEN [name |-> "OutOfBoundsError", errors |-> errors]
             ELSE NoError

(***************************************************************************)
(* Matrix.#boundcheck: the error it throws, or none.                       *)
(***************************************************************************)
boundcheck(mat, y, x) ==
    IF mat.width = 0 \/ mat.height = 0
    THEN [name |-> "OutOfBoundsError", errors |-> <<"0-dimensioned">>]
    ELSE LET e1 == IF x < 0 THEN <<"x must be non-negative">> ELSE <<>>
             e2 == IF x >= mat.width THEN <<"x must be < width">> ELSE <<>>
             e3 == IF y < 0 THEN <<"y must be non-negative">> ELSE <<>>
             e4 == IF y >= mat.height THEN <<"y must be < height">> ELSE <<>>
             errors == e1 \o e2 \o e3 \o e4
         IN  IF Len(errors) > 0
             THEN [name |-> "OutOfBoundsError", errors |-> errors]
             ELSE NoError

(***************************************************************************)
(* Matrix.set(y, x, value):                                                *)
(*     this.#boundcheck(y, x, "set"); this.#data[y][x] = new Entry(value); *)
(* Past the check the assignment is JavaScript's: this.#data[y] undefined  *)
(* throws a TypeError, x at the end of the row lengthens the row, and a    *)
(* negative x names a property that is no element of the row (a row is     *)
(* never shorter than #width, so x is never past the end).                 *)
(***************************************************************************)
\* set writing the new Entry to every cell of row y
set_whole_row(H, mat, y, x, value) ==
    LET err == boundcheck(mat, y, x)
        rows == H[mat.data].items
    IN  IF err.name # "none" THEN [heap |-> H, threw |-> err]
        ELSE LET e == Entry(H, value)
                 row == rows[y + 1]
             IN  [heap |-> [e.heap EXCEPT ![row].items = [i \in 1..Len(@) |-> e.ref]],
                  threw |-> NoError]

set(H, mat, y, x, value) ==
    LET err == boundcheck(mat, y, x)
        rows == H[mat.data].items
    IN  IF err.name # "none" THEN [heap |-> H, threw |-> err]
        ELSE IF y < 0 \/ y >= Len(rows) THEN [heap |-> H, threw |-> TypeError]
        ELSE LET e == Entry(H, value)
                 row == rows[y + 1]
                 length == Len(H[row].items)
             IN  IF x >= 0 /\ x < length
                 THEN [heap |-> [e.heap EXCEPT ![row].items[x + 1] = e.ref],
                       threw |-> NoError]
                 ELSE IF x = length
                      THEN [heap |-> [e.heap EXCEPT ![row].items = Append(@, e.ref)],
                            threw |-> NoError]
                      ELSE [heap |-> H, threw |-> NoError]

(***************************************************************************)
(* Matrix.get(y, x):                                                       *)
(*     this.#boundcheck(y, x, "get"); return this.#data[y][x];             *)
(* ref 0 stands for undefined, what an array gives for an index it has not.*)
(***************************************************************************)
get(H, mat, y, x) ==
    LET err == boundcheck(mat, y, x)
        rows == H[mat.data].items
    IN  IF err.name # "none" THEN [ref |-> 0, threw |-> err]
        ELSE IF y < 0 \/ y >= Len(rows) THEN [ref |-> 0, threw |-> TypeError]
        ELSE IF x >= 0 /\ x < Len(H[rows[y + 1]].items)
             THEN [ref |-> H[rows[y + 1]].items[x + 1], threw |-> NoError]
             ELSE [ref |-> 0, threw |-> NoError]

\* .value of what a get returned: got is the get's outcome, and reading a
\* property of undefined throws
value_of(H, got) ==
    IF got.threw.name # "none" THEN [value |-> Empty, threw |-> got.threw]
    ELSE IF got.ref = 0 THEN [value |-> Empty, threw |-> TypeError]
    ELSE [value |-> H[got.ref].value, threw |-> NoError]

\* this.get(y, x).value
get_value(H, mat, y, x) == value_of(H, get(H, mat, y, x))

(***************************************************************************)
(* An array of arrays of objects put on the heap: the objects of a row,    *)
(* then the row array, row after row; the outer array comes last.          *)
(***************************************************************************)
Allocate(H, objs) ==
    LET rowsDone[k \in 0..Len(objs)] ==
            IF k = 0 THEN [heap |-> H, refs |-> <<>>]
            ELSE LET prev == rowsDone[k - 1]
                     base == Len(prev.heap)
                     length == Len(objs[k])
                 IN  [heap |-> (prev.heap \o objs[k])
                                   \o <<ArrayObj(Tuple([x \in 1..length |-> base + x]))>>,
                      refs |-> Append(prev.refs, base + length + 1)]
        rows == rowsDone[Len(objs)]
    IN  [heap |-> Append(rows.heap, ArrayObj(rows.refs)), data |-> Len(rows.heap) + 1]

(***************************************************************************)
(* Matrix constructor without opts.fill and opts.data:                     *)
(*   Array(height).fill(null).map(_ => Array(width).fill(null)             *)
(*                                      .map(_ => new Entry))              *)
(* The first definition is the constructor with the two dimensions         *)
(* exchanged in the allocation.                                            *)
(***************************************************************************)
NewMatrix_dimensions_exchanged(H, height, width) ==
    LET a == Allocate(H, Tuple([y \in 1..width |->
                             Tuple([x \in 1..height |-> EntryObj(Empty)])]))
    IN  [heap |-> a.heap, mat |-> [height |-> height, width |-> width, data |-> a.data]]

NewMatrix(H, height, width) ==
    LET a == Allocate(H, Tuple([y \in 1..height |->
                             Tuple([x \in 1..width |-> EntryObj(Empty)])]))
    IN  [heap |-> a.heap, mat |-> [height |-> height, width |-> width, data |-> a.data]]

(***************************************************************************)
(* Matrix.set_raw_data(data), data an array of arrays: the Matrix it makes *)
(* of this (NoMatrix when it throws).  The ValueError names the first row  *)
(* whose length is not the first row's, that length and the length         *)
(* expected.  The first definition is set_raw_data testing                 *)
(* subarray.length > width where the code tests !==.                       *)
(***************************************************************************)
IncorrectWidth(y, length, width) ==
    [name |-> "ValueError", errors |-> <<>>,
     message |-> "row has incorrect width", row |-> y, actual |-> length,
     expected |-> width]

set_raw_data_rejecting_longer_rows(H, data) ==
    IF Len(data) = 0
    THEN [heap |-> Append(H, ArrayObj(<<>>)),
          mat |-> [height |-> 0, width |-> 0, data |-> Len(H) + 1], threw |-> NoError]
    ELSE LET width == Len(data[1])
             bad == {y \in 0..(Len(data) - 1) : Len(data[y + 1]) > width}
             first == CHOOSE y \in bad : \A other \in bad : y <= other
             a == Allocate(H, Tuple([y \in 1..Len(data) |->
                          Tuple([x \in 1..Len(data[y]) |-> NewEntry(data[y][x])])]))
         IN  IF bad # {}
             THEN [heap |-> H, mat |-> NoMatrix,
                   threw |-> IncorrectWidth(first, Len(data[first + 1]), width)]
             ELSE [heap |-> a.heap,
                   mat |-> [height |-> Len(data), width |-> Len(data[1]), data |-> a.data],
                   threw |-> NoError]

set_raw_data(H, data) ==
    IF Len(data) = 0
    THEN [heap |-> Append(H, ArrayObj(<<>>)),
          mat |-> [height |-> 0, width |-> 0, data |-> Len(H) + 1], threw |-> NoError]
    ELSE LET width == Len(data[1])
             bad == {y \in 0..(Len(data) - 1) : Len(data[y + 1]) # width}
             first == CHOOSE y \in bad : \A other \in bad : y <= other
             a == Allocate(H, Tuple([y \in 1..Len(data) |->
                          Tuple([x \in 1..Len(data[y]) |-> NewEntry(data[y][x])])]))
         IN  IF bad # {}
             THEN [heap |-> H, mat |-> NoMatrix,
                   threw |-> IncorrectWidth(first, Len(data[first + 1]), width)]
             ELSE [heap |-> a.heap,
                   mat |-> [height |-> Len(data), width |-> Len(data[1]), data |-> a.data],
                   threw |-> NoError]

(***************************************************************************)
(* Matrix.from_data(data): a TypeError unless Array.isArray(data); for an  *)
(* array of arrays new Matrix(null, null, { data }), a ValueError of       *)
(* set_raw_data wrapped as the cause of a new ValueError.  A value is      *)
(* given as what Array.isArray and typeof say of it and, for an array, its *)
(* items.  The first definition is from_data throwing the ValueError of a  *)
(* malformed array for a value that is no array.                           *)
(***************************************************************************)
Array(items) == [is_array |-> TRUE, typeof |-> "object", items |-> items]
NonArray(type) == [is_array |-> FALSE, typeof |-> type, items |-> <<>>]

from_data_shape_error_for_non_arrays(H, data) ==
    LET r == set_raw_data(H, data.items)
    IN  IF ~data.is_array \/ r.threw.name = "ValueError"
        THEN [heap |-> H, mat |-> NoMatrix,
              threw |-> [name |-> "ValueError", errors |-> <<>>,
                         message |-> "malformed format of given 'data'",
                         cause |-> r.threw]]
        ELSE r

from_data(H, data) ==
    IF ~data.is_array
    THEN [heap |-> H, mat |-> NoMatrix, threw |-> TypeError]
    ELSE LET r == set_raw_data(H, data.items)
         IN  IF r.threw.name = "ValueError"
             THEN [heap |-> r.heap, mat |-> NoMatrix,
                   threw |-> [name |-> "ValueError", errors |-> <<>>,
                              message |-> "malformed format of given 'data'",
                              cause |-> r.threw]]
             ELSE r

(***************************************************************************)
(* Garbage collection: the objects reachable from the given roots are      *)
(* renumbered in the order a breadth-first walk meets them (the structures *)
(* of the library are at most three levels deep: an array of arrays of     *)
(* objects); unreachable objects are dropped.  References are opaque, so   *)
(* this changes nothing the program can observe.                           *)
(***************************************************************************)
Refs(H, ref) == IF H[ref].kind = "Array" THEN H[ref].items ELSE <<>>

Flat(H, level) ==
    LET flat[k \in 0..Len(level)] ==
            IF k = 0 THEN <<>> ELSE flat[k - 1] \o Refs(H, level[k])
    IN  flat[Len(level)]

Walk(H, roots) ==
    LET l1 == Flat(H, roots)
        l2 == Flat(H, l1)
        l3 == Flat(H, l2)
    IN  roots \o l1 \o l2 \o l3

\* the objects met, each once, in the order of the walk
Met(walk) == IF Cardinality(Range(walk)) = Len(walk) THEN walk ELSE SetOf(walk)

\* the new reference of every object (0 for one that is dropped)
Renumbering(H, order) ==
    Tuple([ref \in 1..Len(H) |->
        IF ref \in Range(order) THEN CHOOSE k \in 1..Len(order) : order[k] = ref
        ELSE 0])

\* object o with its references renumbered
Renumbered(o, new) ==
    IF o.kind = "Array"
    THEN [o EXCEPT !.items = Tuple([i \in 1..Len(o.items) |-> new[o.items[i]]])]
    ELSE o

Compacted(H, order, new) ==
    [heap |-> Tuple([k \in 1..Len(order) |-> Renumbered(H[order[k]], new)]), new |-> new]

Compact(H, order) == Compacted(H, order, Renumbering(H, order))

Collect(H, roots) == Compact(H, Met(Walk(H, roots)))

RootsOf(mat) == IF mat = NoMatrix THEN <<>> ELSE <<mat.data>>

Moved(mat, new) == IF mat = NoMatrix THEN mat ELSE [mat EXCEPT !.data = new[mat.data]]

(***************************************************************************)
(* Matrix.as_array({ empty_treated_as }): the values of #data, row by row, *)
(* with Empty replaced.                                                    *)
(***************************************************************************)
as_array(H, mat, empty_treated_as) ==
    Tuple([y \in 1..NumRows(H, mat) |->
        Tuple([x \in 1..RowLen(H, mat, y - 1) |->
            LET value == Cell(H, mat, y - 1, x - 1)
            IN  IF value = Empty THEN empty_treated_as ELSE value])])

(***************************************************************************)
(* Matrix.entries(), run to its end: [[y, x], value] of every non-empty    *)
(* cell, for y of range(height), for x of range(width).  The first         *)
(* definition is entries() without its is_not_empty() test.                *)
(***************************************************************************)
\* yield [[y, x], entry.value] for each of the entries got
yielded(H, got) ==
    Tuple([i \in 1..Len(got) |->
        [y |-> got[i].y, x |-> got[i].x, value |-> H[got[i].entry].value]])

entries_of_every_cell(H, mat) ==
    LET n == mat.height * mat.width
        yOf(k) == (k - 1) \div mat.width
        xOf(k) == (k - 1) % mat.width
        every == Tuple([k \in 1..n |->
                     [y |-> yOf(k), x |-> xOf(k), entry |-> get(H, mat, yOf(k), xOf(k)).ref]])
    IN  yielded(H, every)

entries(H, mat) ==
    LET n == mat.height * mat.width
        yOf(k) == (k - 1) \div mat.width
        xOf(k) == (k - 1) % mat.width
        every == Tuple([k \in 1..n |->
                     [y |-> yOf(k), x |-> xOf(k), entry |-> get(H, mat, yOf(k), xOf(k)).ref]])
    IN  yielded(H, SelectSeq(every, LAMBDA c : is_not_empty(H, c.entry)))

\* Matrix.is_empty(): no entry is yielded
Matrix_is_empty(H, mat) == Len(entries(H, mat)) = 0

(***************************************************************************)
(* The copying loop shared in shape by transpose and slice: for each move  *)
(* [sy, sx, ty, tx] in turn do                                             *)
(*     target.set(ty, tx, this.get(sy, sx).value)                          *)
(* and stop at the first call that throws.                                 *)
(***************************************************************************)
set_got(H, tgt, move, got) ==
    IF got.threw.name # "none" THEN [heap |-> H, threw |-> got.threw]
    ELSE set(H, tgt, move.ty, move.tx, got.value)

CopyCell(prev, src, tgt, move) ==
    IF prev.threw.name # "none" THEN prev
    ELSE set_got(prev.heap, tgt, move, get_value(prev.heap, src, move.sy, move.sx))

CopyCells(H, src, tgt, moves) ==
    LET step[k \in 0..Len(moves)] ==
            IF k = 0 THEN [heap |-> H, threw |-> NoError]
            ELSE CopyCell(step[k - 1], src, tgt, moves[k])
    IN  step[Len(moves)]

\* what the method returns: the new Matrix, or what the loop threw
Copied(n, loop) == [heap |-> loop.heap, mat |-> n.mat, threw |-> loop.threw]

\* the loop run on the new Matrix n
CopyInto(n, src, moves) == Copied(n, CopyCells(n.heap, src, n.mat, moves))

(***************************************************************************)
(* Matrix.transpose().  The first definition is transpose() writing        *)
(* n.set(y, x, ...) where the code writes n.set(x, y, ...).                *)
(***************************************************************************)
transpose_unswapped(H, mat) ==
    CopyInto(NewMatrix(H, mat.width, mat.height), mat,
             Tuple([k \in 1..(mat.height * mat.width) |->
                 [sy |-> (k - 1) \div mat.width, sx |-> (k - 1) % mat.width,
                  ty |-> (k - 1) \div mat.width, tx |-> (k - 1) % mat.width]]))

transpose(H, mat) ==
    CopyInto(NewMatrix(H, mat.width, mat.height), mat,
             Tuple([k \in 1..(mat.height * mat.width) |->
                 [sy |-> (k - 1) \div mat.width, sx |-> (k - 1) % mat.width,
                  ty |-> (k - 1) % mat.width, tx |-> (k - 1) \div mat.width]]))

(***************************************************************************)
(* Matrix.slice(rows, columns): the index lists are de-duped and sorted,   *)
(* and slice_sorted is the rest of the method.  The definition before      *)
(* slice is slice() handing back the receiver when every row and every     *)
(* column is selected.                                                     *)
(***************************************************************************)
slice_sorted(H, mat, rows, columns) ==
    CopyInto(NewMatrix(H, len(rows), len(columns)), mat,
             Tuple([k \in 1..(len(rows) * len(columns)) |->
                 [sy |-> rows[((k - 1) \div len(columns)) + 1],
                  sx |-> columns[((k - 1) % len(columns)) + 1],
                  ty |-> (k - 1) \div len(columns), tx |-> (k - 1) % len(columns)]]))

slice_returning_receiver(H, mat, rows, columns) ==
    IF len(SetOf(rows)) = mat.height /\ len(SetOf(columns)) = mat.width
    THEN [heap |-> H, mat |-> mat, threw |-> NoError]
    ELSE slice_sorted(H, mat, sort_numerically(SetOf(rows)),
                      sort_numerically(SetOf(columns)))

slice(H, mat, rows, columns) ==
    slice_sorted(H, mat, sort_numerically(SetOf(rows)), sort_numerically(SetOf(columns)))

(***************************************************************************)
(* Matrix.without_empty_rows_and_columns().  new_rows and new_columns are  *)
(* the objects keyed by old index, modelled as their key/value pairs in    *)
(* ascending key order; both are written in the inner loop body, so        *)
(* neither gets a key when the other list is empty.  The first definition *)
(* is the map with next_x / next_y never counted: new index = old index.   *)
(***************************************************************************)
IndexMap_of_old_indices(xs, written) ==
    IF written THEN Tuple([i \in 1..Len(xs) |-> [key |-> xs[i], value |-> xs[i]]])
    ELSE <<>>

IndexMap(xs, written) ==
    IF written THEN Tuple([i \in 1..Len(xs) |-> [key |-> xs[i], value |-> i - 1]])
    ELSE <<>>

\* return { new_matrix, new_columns, new_rows }, sliced being what
\* this.slice(rows, columns) returned
pruned(sliced, rows, columns) ==
    [heap |-> sliced.heap, new_matrix |-> sliced.mat, threw |-> sliced.threw,
     new_rows |-> IndexMap(rows, Len(columns) > 0),
     new_columns |-> IndexMap(columns, Len(rows) > 0)]

\* the method from const new_matrix = this.slice(rows, columns) on
prune(H, mat, rows, columns) == pruned(slice(H, mat, rows, columns), rows, columns)

\* the ys and the xs of the entries, de-duped and sorted
rows_of(es) == sort_numerically(SetOf(Tuple([i \in 1..Len(es) |-> es[i].y])))
columns_of(es) == sort_numerically(SetOf(Tuple([i \in 1..Len(es) |-> es[i].x])))

without_empty_rows_and_columns(H, mat) ==
    prune(H, mat, rows_of(entries(H, mat)), columns_of(entries(H, mat)))


(***************************************************************************)
(* class Table of entry.mjs.  A Table is its caption and the references of *)
(* its row_headers (an array of strings) and column_headers (an array of   *)
(* arrays of { text, span } objects); its data is a Matrix, held beside it.*)
(***************************************************************************)
ListObj(values) == [kind |-> "List", value |-> values, items |-> <<>>]
HeaderObj(text, span) ==
    [kind |-> "Header", value |-> [text |-> text, span |-> span], items |-> <<>>]

NoTable == [caption |-> "", row_headers |-> 0, column_headers |-> 0]

\* the strings of a row_headers array, the { text, span } of a column_headers array
Strings(H, ref) == H[ref].value
HeaderRows(H, ref) ==
    Tuple([i \in 1..Len(H[ref].items) |->
        LET row == H[H[ref].items[i]].items
        IN  Tuple([j \in 1..Len(row) |-> H[row[j]].value])])

\* new Table(caption, data, row_headers, column_headers) with the two header
\* arrays newly made of the given strings and { text, span }
NewTable(H, caption, row_headers, column_headers) ==
    LET a == Allocate(Append(H, ListObj(row_headers)),
                      Tuple([i \in 1..Len(column_headers) |->
                          Tuple([j \in 1..Len(column_headers[i]) |->
                              HeaderObj(column_headers[i][j].text,
                                        column_headers[i][j].span)])]))
    IN  [heap |-> a.heap,
         table |-> [caption |-> caption, row_headers |-> Len(H) + 1,
                    column_headers |-> a.data]]

\* Array.prototype.includes
includes(xs, v) == \E k \in 1..Len(xs) : xs[k] = v

\* the elements of xs whose index is included in indexes, in the order of xs:
\*   xs.filter((_, i) => indexes.includes(i)), and the loop of Table.slice
\*   for (const [ch_idx, ch] of enumerate(ch_row)) if (columns.includes(ch_idx)) ...
Keep(xs, indexes) ==
    LET keep[k \in 0..Len(xs)] ==
            IF k = 0 THEN <<>>
            ELSE IF includes(indexes, k - 1) THEN Append(keep[k - 1], xs[k])
                 ELSE keep[k - 1]
    IN  keep[Len(xs)]

\* despan(column_headers) pushing the text of every cell once, whatever
\* its span
despan_ignoring_spans(column_headers) ==
    Tuple([i \in 1..Len(column_headers) |->
        Tuple([k \in 1..Len(column_headers[i]) |-> column_headers[i][k].text])])

\* despan(column_headers): every text repeated span times
despan(column_headers) ==
    Tuple([i \in 1..Len(column_headers) |->
        LET ch_row == column_headers[i]
            row[k \in 0..Len(ch_row)] ==
                IF k = 0 THEN <<>>
                ELSE row[k - 1] \o Tuple([x \in 1..ch_row[k].span |-> ch_row[k].text])
        IN  row[Len(ch_row)]])

\* respan(column_headers) that pushes a run when the text changes and not
\* at the end of the row
respan_dropping_last_run(column_headers) ==
    LET spans(row) ==
            LET run[k \in 1..Len(row)] ==
                    IF k = 1 THEN [new_row |-> <<>>, current_value |-> row[1], span |-> 1]
                    ELSE LET prev == run[k - 1]
                         IN  IF row[k] = prev.current_value
                             THEN [prev EXCEPT !.span = @ + 1]
                             ELSE [new_row |-> Append(prev.new_row,
                                        [text |-> prev.current_value, span |-> prev.span]),
                                   current_value |-> row[k], span |-> 1]
            IN  run[Len(row)].new_row
        rows == SelectSeq(column_headers, LAMBDA row : row # <<>>)
    IN  Tuple([i \in 1..Len(rows) |-> spans(rows[i])])

\* respan(column_headers) giving every text a cell of span 1, equal
\* neighbours not merged
respan_without_merging(column_headers) ==
    LET rows == SelectSeq(column_headers, LAMBDA row : row # <<>>)
    IN  Tuple([i \in 1..Len(rows) |->
            Tuple([k \in 1..Len(rows[i]) |-> [text |-> rows[i][k], span |-> 1]])])

\* respan(column_headers): every run of equal texts of a row as one
\* { text, span }; a row without texts is skipped (continue)
respan(column_headers) ==
    LET spans(row) ==
            LET run[k \in 1..Len(row)] ==
                    IF k = 1 THEN [new_row |-> <<>>, current_value |-> row[1], span |-> 1]
                    ELSE LET prev == run[k - 1]
                         IN  IF row[k] = prev.current_value
                             THEN [prev EXCEPT !.span = @ + 1]
                             ELSE [new_row |-> Append(prev.new_row,
                                        [text |-> prev.current_value, span |-> prev.span]),
                                   current_value |-> row[k], span |-> 1]
                end == run[Len(row)]
            IN  Append(end.new_row, [text |-> end.current_value, span |-> end.span])
        out[i \in 0..Len(column_headers)] ==
            IF i = 0 THEN <<>>
            ELSE IF Len(column_headers[i]) = 0 THEN out[i - 1]
                 ELSE Append(out[i - 1], spans(column_headers[i]))
    IN  out[Len(column_headers)]

(***************************************************************************)
(* Table.slice(rows, columns) of the Table tab with data mat               *)
(***************************************************************************)
Table_sliced(H, tab, new_matrix, new_row_headers, new_column_headers) ==
    IF new_matrix.threw.name # "none"
    THEN [heap |-> new_matrix.heap, mat |-> NoMatrix, table |-> NoTable,
          threw |-> new_matrix.threw]
    ELSE [heap |-> NewTable(new_matrix.heap, tab.caption, new_row_headers,
                            new_column_headers).heap,
          mat |-> new_matrix.mat,
          table |-> NewTable(new_matrix.heap, tab.caption, new_row_headers,
                             new_column_headers).table,
          threw |-> NoError]

\* the rows of despanned with the elements whose index columns includes
kept_columns(despanned, columns) ==
    Tuple([i \in 1..Len(despanned) |-> Keep(despanned[i], columns)])

Table_slice(H, tab, mat, rows, columns) ==
    Table_sliced(H, tab, slice(H, mat, rows, columns),
                 Keep(Strings(H, tab.row_headers), rows),
                 respan(kept_columns(despan(HeaderRows(H, tab.column_headers)), columns)))

(***************************************************************************)
(* Object.keys(new_rows).sort(): the keys are strings and sort() without a *)
(* comparator orders strings by their characters, so the decimal numerals  *)
(* of the keys are compared digit by digit.                                *)
(***************************************************************************)
RECURSIVE Digits(_)
Digits(n) == IF n < 10 THEN <<n>> ELSE Append(Digits(n \div 10), n % 10)

lexicographically(a, b) ==
    LET da == Digits(a)
        db == Digits(b)
        differ == {k \in 1..Len(da) : k > Len(db) \/ da[k] # db[k]}
        first == CHOOSE k \in differ : \A other \in differ : k <= other
    IN  IF differ = {} THEN Len(da) - Len(db)
        ELSE IF first > Len(db) THEN 1
             ELSE da[first] - db[first]

\* keys.sort()
sort_by_default(xs) ==
    sort(xs, [j \in 1..Len(xs) |-> [i \in 1..Len(xs) |-> lexicographically(xs[j], xs[i])]])

(***************************************************************************)
(* Table.without_empty_rows_and_columns() of the Table tab with data mat.  *)
(* span_adjustments stays 0, so idx is the old column; an index an array   *)
(* has not gives undefined.                                                *)
(***************************************************************************)
ElementAt(xs, index) == IF index >= 0 /\ index < Len(xs) THEN xs[index + 1] ELSE undefined

\* new_row_headers as the row headers of the source, none left out
pruned_row_headers_unfiltered(row_headers, keys) == row_headers

\* new_row_headers: this.row_headers[row] for the sorted keys of new_rows
pruned_row_headers(row_headers, keys) ==
    IF Len(row_headers) > 0
    THEN Tuple([k \in 1..Len(keys) |-> ElementAt(row_headers, keys[k])])
    ELSE <<>>

\* new_column_headers with the equal neighbouring texts merged again
pruned_column_headers_respanned(despanned_column_headers, new_columns) ==
    respan(Tuple([i \in 1..Len(despanned_column_headers) |->
        Tuple([k \in 1..Len(new_columns) |->
            ElementAt(despanned_column_headers[i], new_columns[k].key)])]))

\* new_column_headers: for each [_old, _new] of new_columns and each row of
\* headers, { text: despanned_column_headers[i][_old - 0], span: 1 }
pruned_column_headers(despanned_column_headers, new_columns) ==
    Tuple([i \in 1..Len(despanned_column_headers) |->
        Tuple([k \in 1..Len(new_columns) |->
            [text |-> ElementAt(despanned_column_headers[i], new_columns[k].key),
             span |-> 1]])])

\* the keys of an index map
keys_of(map) == Tuple([k \in 1..Len(map) |-> map[k].key])

Table_pruned(H, tab, r) ==
    Table_sliced(H, tab, [heap |-> r.heap, mat |-> r.new_matrix, threw |-> r.threw],
                 pruned_row_headers(Strings(H, tab.row_headers),
                                    sort_by_default(keys_of(r.new_rows))),
                 pruned_column_headers(despan(HeaderRows(H, tab.column_headers)),
                                       r.new_columns))

Table_without_empty_rows_and_columns(H, tab, mat) ==
    Table_pruned(H, tab, without_empty_rows_and_columns(H, mat))

(***************************************************************************)
(* What a caller can observe of a Matrix: its dimensions and the content   *)
(* of every cell of #data (Empty for an empty cell).                       *)
(***************************************************************************)
View(H, mat) ==
    [height |-> mat.height, width |-> mat.width, cells |-> as_array(H, mat, Empty)]

(***************************************************************************)
(* What a caller can observe of a Table beside its data: its caption and   *)
(* its headers.                                                            *)
(***************************************************************************)
TableView(H, tab) ==
    IF tab = NoTable THEN [caption |-> "", row_headers |-> <<>>, column_headers |-> <<>>]
    ELSE [caption |-> tab.caption,
          row_headers |-> Strings(H, tab.row_headers),
          column_headers |-> HeaderRows(H, tab.column_headers)]

TableRoots(tab) == IF tab = NoTable THEN <<>> ELSE <<tab.row_headers, tab.column_headers>>

MovedTable(tab, new) ==
    IF tab = NoTable THEN tab
    ELSE [tab EXCEPT !.row_headers = new[tab.row_headers],
                     !.column_headers = new[tab.column_headers]]

(***************************************************************************)
(* The state machine.  m is the Matrix the program constructed, d the      *)
(* Matrix a structural operation on m returned and d2 the Matrix a         *)
(* structural operation on d returned (NoMatrix while there is none).  tm  *)
(* is the Table whose data is m and td the Table whose data is d (NoTable  *)
(* while there is none); raw is the array handed to Matrix.from_data; it   *)
(* is the generator object the last call of m.entries() returned.          *)
(* last is the last call with what it returned or threw, nsets the number  *)
(* of set calls the steps made that returned.  A call that throws ends the *)
(* run, and so does a get: it changes nothing, so every later step is a    *)
(* step of the run without it.                                             *)
(***************************************************************************)
NoMap == <<>>

\* no generator object (entries() was not called)
NoIterator == [on |-> "", next |-> 0, done |-> FALSE, yielded |-> <<>>,
               snapshot |-> <<>>, sets |-> 0]

Call(op, on) ==
    [op |-> op, on |-> on, after |-> "", y |-> 0, x |-> 0, value |-> Empty,
     threw |-> NoError, ret |-> Empty,
     rows |-> <<>>, columns |-> <<>>, new_rows |-> NoMap, new_columns |-> NoMap]

Running == last.threw.name = "none" /\ last.op # "get"

\* the heap after a call, garbage collected, with the matrices and the tables
\* (a heap the call left as it was is collected already)
StoreAll(H, mat, derived, derived2, tab, dtab) ==
    IF H = heap /\ <<mat, derived, derived2, tab, dtab>> = <<m, d, d2, tm, td>>
    THEN UNCHANGED <<heap, m, d, d2, tm, td>>
    ELSE \E c \in {Collect(H, RootsOf(mat) \o TableRoots(tab) \o RootsOf(derived)
                                \o TableRoots(dtab) \o RootsOf(derived2))} :
             /\ heap' = c.heap
             /\ m' = Moved(mat, c.new)
             /\ d' = Moved(derived, c.new)
             /\ d2' = Moved(derived2, c.new)
             /\ tm' = MovedTable(tab, c.new)
             /\ td' = MovedTable(dtab, c.new)

Store(H, mat, derived, derived2) == StoreAll(H, mat, derived, derived2, tm, td)

\* const m = new Matrix()   (height === undefined: set_raw_data([]))
DefaultMatrix(H) == set_raw_data(H, <<>>)

InitMatrix(maxh, maxw) ==
    /\ d = NoMatrix
    /\ d2 = NoMatrix
    /\ tm = NoTable
    /\ td = NoTable
    /\ raw = <<>>
    /\ it = NoIterator
    /\ nsets = 0
    /\ \/ \E n \in {DefaultMatrix(<<>>)} :
          \E c \in {Collect(n.heap, RootsOf(n.mat))} :
              /\ heap = c.heap
              /\ m = Moved(n.mat, c.new)
              /\ last = Call("new Matrix()", "m")
       \/ \E height \in 0..maxh, width \in 0..maxw :
          \E n \in {NewMatrix(<<>>, height, width)} :
          \E c \in {Collect(n.heap, RootsOf(n.mat))} :
                  /\ heap = c.heap
                  /\ m = Moved(n.mat, c.new)
                  /\ last = [Call("new Matrix(height, width)", "m") EXCEPT
                                !.y = height, !.x = width]

Init == InitMatrix(MaxHeight, MaxWidth)

\* m.set(y, x, value)
SetCell(y, x, value) ==
    \E r \in {set(heap, m, y, x, value)} :
        /\ Store(r.heap, m, d, d2)
        /\ nsets' = IF r.threw.name = "none" THEN nsets + 1 ELSE nsets
        /\ last' = [Call("set", "m") EXCEPT !.after = last.op, !.y = y, !.x = x,
                        !.value = value, !.threw = r.threw]
        /\ UNCHANGED <<raw, it>>

Set ==
    \E y \in -1..m.height, x \in -1..m.width, value \in Values :
        /\ Running
        /\ d = NoMatrix
        /\ nsets < MaxSets \/ boundcheck(m, y, x).name # "none"
        /\ SetCell(y, x, value)

\* m.get(y, x).value
Get ==
    \E y \in -1..m.height, x \in -1..m.width :
        /\ Running
        /\ d = NoMatrix
        /\ \E r \in {get_value(heap, m, y, x)} :
            /\ last' = [Call("get", "m") EXCEPT !.after = last.op, !.y = y, !.x = x,
                            !.threw = r.threw,
                            !.ret = r.value]
            /\ UNCHANGED <<heap, m, d, d2, nsets, tm, td, raw, it>>

\* the receiver of the next structural operation and where its result goes
Receiver == IF d = NoMatrix THEN m ELSE d
ReceiverName == IF d = NoMatrix THEN "m" ELSE "d"

Derive(H, result) ==
    Store(H, m, IF d = NoMatrix THEN result ELSE d, IF d = NoMatrix THEN d2 ELSE result)

\* d = m.transpose(), or d2 = d.transpose()
Transpose ==
    /\ Running
    /\ d2 = NoMatrix
    /\ \E r \in {transpose(heap, Receiver)} :
        /\ Derive(r.heap, r.mat)
        /\ last' = [Call("transpose", ReceiverName) EXCEPT !.after = last.op,
                        !.threw = r.threw]
        /\ UNCHANGED <<nsets, raw, it>>

\* { new_matrix, new_rows, new_columns } = m.without_empty_rows_and_columns(),
\* or the same on d
WithoutEmpty ==
    /\ Running
    /\ d2 = NoMatrix
    /\ \E r \in {without_empty_rows_and_columns(heap, Receiver)} :
        /\ Derive(r.heap, r.new_matrix)
        /\ last' = [Call("without_empty_rows_and_columns", ReceiverName) EXCEPT
                        !.after = last.op, !.threw = r.threw,
                        !.new_rows = r.new_rows, !.new_columns = r.new_columns]
        /\ UNCHANGED <<nsets, raw, it>>

Next ==
    \/ Set
    \/ Get
    \/ Transpose
    \/ WithoutEmpty

Spec == Init /\ [][Next]_vars

(***************************************************************************)
(* The specification of slice.  It starts from a Matrix the program has    *)
(* populated: after new Matrix(height, width), m.set(y, x, Label(y, x))    *)
(* for every cell but a few, so that every non-empty cell holds a value of *)
(* its own.  The one step is d = m.slice(rows, columns) with index lists   *)
(* within the Matrix, in any order and with repetitions.                   *)
(***************************************************************************)
Label(y, x) == "r" \o ToString(y) \o "c" \o ToString(x)

Populate(H, mat, holes) ==
    LET n == mat.height * mat.width
        yOf(k) == (k - 1) \div mat.width
        xOf(k) == (k - 1) % mat.width
        step[k \in 0..n] ==
            IF k = 0 THEN H
            ELSE LET prev == step[k - 1]
                 IN  IF <<yOf(k), xOf(k)>> \in holes THEN prev
                     ELSE set(prev, mat, yOf(k), xOf(k), Label(yOf(k), xOf(k))).heap
    IN  step[n]

InitPopulated(maxh, maxw, maxholes) ==
    \E height \in 0..maxh, width \in 0..maxw :
        \E holes \in SUBSET ((0..(height - 1)) \X (0..(width - 1))) :
            \E n \in {NewMatrix(<<>>, height, width)} :
            \E c \in {Collect(Populate(n.heap, n.mat, holes), RootsOf(n.mat))} :
                /\ Cardinality(holes) <= maxholes
                /\ heap = c.heap
                /\ m = Moved(n.mat, c.new)
                /\ d = NoMatrix
                /\ d2 = NoMatrix
                /\ tm = NoTable
                /\ td = NoTable
                /\ raw = <<>>
                /\ it = NoIterator
                /\ nsets = 0
                /\ last = [Call("populate", "m") EXCEPT !.y = height, !.x = width]

InitSlice == InitPopulated(SliceHeight, SliceWidth, MaxEmptyCells)

\* d = m.slice(rows, columns)
SliceBy(rows, columns) ==
    /\ Running
    /\ d = NoMatrix
    /\ \E r \in {slice(heap, m, rows, columns)} :
        /\ Derive(r.heap, r.mat)
        /\ last' = [Call("slice", "m") EXCEPT !.after = last.op, !.rows = rows,
                        !.columns = columns, !.threw = r.threw]
        /\ UNCHANGED <<nsets, raw, it>>

Slice ==
    /\ d = NoMatrix
    /\ \E rows \in SeqsUpTo(0..(m.height - 1), MaxListLen),
          columns \in SeqsUpTo(0..(m.width - 1), MaxListLen) :
           SliceBy(rows, columns)

NextSlice == Slice

SpecSlice == InitSlice /\ [][NextSlice]_vars

(***************************************************************************)
(* The specification of from_data.  It starts with an array of arrays of   *)
(* raw values, rectangular or not; the steps are m = Matrix.from_data(raw) *)
(* and then m.as_array(), or Matrix.from_data of a value that is no array. *)
(***************************************************************************)
\* what typeof says of the values that are no arrays: null, undefined, a
\* string, a number
NonArrayTypes == {"object", "undefined", "string", "number"}

InitData ==
    /\ raw \in SeqsUpTo(SeqsUpTo(Values, MaxRowLen), MaxRows)
    /\ it = NoIterator
    /\ heap = <<>>
    /\ m = NoMatrix
    /\ d = NoMatrix
    /\ d2 = NoMatrix
    /\ tm = NoTable
    /\ td = NoTable
    /\ nsets = 0
    /\ last = Call("none", "")

\* m = Matrix.from_data(raw)
FromData ==
    /\ last.op = "none"
    /\ \E r \in {from_data(heap, Array(raw))} :
        /\ StoreAll(r.heap, r.mat, d, d2, tm, td)
        /\ last' = [Call("from_data", "raw") EXCEPT !.after = last.op, !.threw = r.threw]
        /\ UNCHANGED <<nsets, raw, it>>

\* Matrix.from_data(data) with a value that is no array (the array raw plays
\* no part in the call: it is made where raw is empty)
FromDataNonArray ==
    /\ last.op = "none"
    /\ raw = <<>>
    /\ \E type \in NonArrayTypes :
       \E r \in {from_data(heap, NonArray(type))} :
        /\ StoreAll(r.heap, r.mat, d, d2, tm, td)
        /\ last' = [Call("from_data(no array)", "") EXCEPT !.after = last.op,
                        !.value = type, !.threw = r.threw]
        /\ UNCHANGED <<nsets, raw, it>>

\* m.as_array()
AsArray ==
    /\ Running
    /\ last.op = "from_data"
    /\ last' = [Call("as_array", "m") EXCEPT !.after = last.op,
                    !.ret = as_array(heap, m, undefined)]
    /\ UNCHANGED <<heap, m, d, d2, nsets, tm, td, raw, it>>

NextData ==
    \/ FromData
    \/ FromDataNonArray
    \/ AsArray

SpecData == InitData /\ [][NextData]_vars

(***************************************************************************)
(* The specification of deriving.  It starts from a Table the program has  *)
(* built and populated: tm = new Table("t", m, row_headers, column_headers)*)
(* with a header per row, a column header spanning all columns above a     *)
(* header per column, and m.set(y, x, Label(y, x)) for every cell but      *)
(* those of the last of several columns.  One structural operation derives *)
(* d from m, or td with its data d from tm; after it come set calls on m   *)
(* and on d within their dimensions.                                       *)
(***************************************************************************)
RowHeaders(height) == Tuple([y \in 1..height |-> "row" \o ToString(y - 1)])

ColumnHeaders(width) ==
    << IF width = 0 THEN <<>> ELSE <<[text |-> "all", span |-> width]>>,
       Tuple([x \in 1..width |-> [text |-> "col" \o ToString(x - 1), span |-> 1]]) >>

InitTable(maxh, maxw) ==
    \E height \in 0..maxh, width \in 0..maxw :
        \E n \in {NewMatrix(<<>>, height, width)} :
        \E holes \in {IF width < 2 THEN {} ELSE (0..(height - 1)) \X {width - 1}} :
        \E tb \in {NewTable(Populate(n.heap, n.mat, holes), "t",
                             RowHeaders(height), ColumnHeaders(width))} :
        \E c \in {Collect(tb.heap, RootsOf(n.mat) \o TableRoots(tb.table))} :
            /\ heap = c.heap
            /\ m = Moved(n.mat, c.new)
            /\ tm = MovedTable(tb.table, c.new)
            /\ d = NoMatrix
            /\ d2 = NoMatrix
            /\ td = NoTable
            /\ raw = <<>>
            /\ it = NoIterator
            /\ nsets = 0
            /\ last = [Call("new Table", "m") EXCEPT !.y = height, !.x = width]

InitAlias == InitTable(AliasHeight, AliasWidth)

\* the indexes of a set in ascending order
Ascending(S) ==
    Tuple([i \in 1..Cardinality(S) |->
        CHOOSE s \in S : Cardinality({o \in S : o < s}) = i - 1])

Selections(n) == {Ascending(S) : S \in SUBSET (0..(n - 1))}

\* d = m.transpose()
AliasTranspose == d = NoMatrix /\ Transpose

\* d = m.without_empty_rows_and_columns().new_matrix
AliasWithoutEmpty == d = NoMatrix /\ WithoutEmpty

\* d = m.slice(rows, columns)
AliasSlice ==
    /\ d = NoMatrix
    /\ \E rows \in Selections(m.height), columns \in Selections(m.width) :
           SliceBy(rows, columns)

\* td = tm.slice(rows, columns), d = td.data
TableSlice ==
    /\ Running
    /\ d = NoMatrix
    /\ \E rows \in Selections(m.height), columns \in Selections(m.width) :
       \E r \in {Table_slice(heap, tm, m, rows, columns)} :
            /\ StoreAll(r.heap, m, r.mat, d2, tm, r.table)
            /\ last' = [Call("Table.slice", "m") EXCEPT !.after = last.op,
                            !.rows = rows, !.columns = columns, !.threw = r.threw]
            /\ UNCHANGED <<nsets, raw, it>>

\* td = tm.without_empty_rows_and_columns(), d = td.data
TableWithoutEmpty ==
    /\ Running
    /\ d = NoMatrix
    /\ \E r \in {Table_without_empty_rows_and_columns(heap, tm, m)} :
        /\ StoreAll(r.heap, m, r.mat, d2, tm, r.table)
        /\ last' = [Call("Table.without_empty_rows_and_columns", "m") EXCEPT
                        !.after = last.op, !.threw = r.threw]
        /\ UNCHANGED <<nsets, raw, it>>

\* m.set(y, x, "z") after deriving
SetSource ==
    \E y \in 0..(m.height - 1), x \in 0..(m.width - 1) :
        /\ Running
        /\ d # NoMatrix
        /\ nsets < AliasSets
        /\ SetCell(y, x, "z")

\* d.set(y, x, "z")
SetResult ==
    \E y \in 0..(d.height - 1), x \in 0..(d.width - 1) :
        /\ Running
        /\ d # NoMatrix
        /\ nsets < AliasSets
        /\ \E r \in {set(heap, d, y, x, "z")} :
            /\ Store(r.heap, m, d, d2)
            /\ nsets' = IF r.threw.name = "none" THEN nsets + 1 ELSE nsets
            /\ last' = [Call("set", "d") EXCEPT !.after = last.op, !.y = y, !.x = x,
                            !.value = "z", !.threw = r.threw]
            /\ UNCHANGED <<raw, it>>

NextAlias ==
    \/ AliasTranspose
    \/ AliasWithoutEmpty
    \/ AliasSlice
    \/ TableSlice
    \/ TableWithoutEmpty
    \/ SetSource
    \/ SetResult

SpecAlias == InitAlias /\ [][NextAlias]_vars

(***************************************************************************)
(* Tables with grouped column headers.  The program builds                 *)
(* new Table("t", data, row_headers, [top, columns]) on a new Matrix: a    *)
(* header per row or no row headers at all, a top header row that groups   *)
(* the columns in any way, each group labelled with one of the given texts *)
(* (neighbouring groups may carry the same label), above a header per      *)
(* column.  The cells of the data are all set or all empty.                *)
(***************************************************************************)
HeaderTexts == {"A", "B"}

\* the ways to cut width columns into groups: the spans of the groups
Compositions(width) ==
    IF width = 0 THEN {<<>>}
    ELSE {Tuple([k \in 1..(Len(cuts) + 1) |->
              (IF k > Len(cuts) THEN width ELSE cuts[k])
              - (IF k = 1 THEN 0 ELSE cuts[k - 1])]) :
                  cuts \in {Ascending(S) : S \in SUBSET (1..(width - 1))}}

HeaderRowsOf(width, labels) ==
    UNION {{Tuple([k \in 1..Len(spans) |-> [text |-> texts[k], span |-> spans[k]]]) :
                texts \in [1..Len(spans) -> labels]} : spans \in Compositions(width)}

InitHeaded(heights, maxw, populated, labels) ==
    \E height \in heights, width \in 0..maxw :
        \E row_headers \in {<<>>, RowHeaders(height)}, top \in HeaderRowsOf(width, labels) :
        \E n \in {NewMatrix(<<>>, height, width)} :
        \E holes \in {IF p THEN {} ELSE (0..(height - 1)) \X (0..(width - 1)) :
                          p \in populated} :
        \E tb \in {NewTable(Populate(n.heap, n.mat, holes), "t", row_headers,
                             <<top, ColumnHeaders(width)[2]>>)} :
        \E c \in {Collect(tb.heap, RootsOf(n.mat) \o TableRoots(tb.table))} :
            /\ heap = c.heap
            /\ m = Moved(n.mat, c.new)
            /\ tm = MovedTable(tb.table, c.new)
            /\ d = NoMatrix
            /\ d2 = NoMatrix
            /\ td = NoTable
            /\ raw = <<>>
            /\ it = NoIterator
            /\ nsets = 0
            /\ last = [Call("new Table", "m") EXCEPT !.y = height, !.x = width]

\* tm.data.set(y, x, Label(y, x)) before deriving
SetBefore(maxsets) ==
    \E y \in 0..(m.height - 1), x \in 0..(m.width - 1) :
        /\ Running
        /\ d = NoMatrix
        /\ nsets < maxsets
        /\ SetCell(y, x, Label(y, x))

(***************************************************************************)
(* The specification of Table.slice.  The Table has every cell set and its *)
(* top header row the labels A and B; the step is                          *)
(* td = tm.slice(rows, columns) with indices within the dimensions, the    *)
(* rows in ascending order, the columns in any order and with repetitions. *)
(***************************************************************************)
InitTableSlice == InitHeaded(0..TableHeight, TableWidth, {TRUE}, HeaderTexts)

TableSliceLists ==
    /\ Running
    /\ d = NoMatrix
    /\ \E rows \in Selections(m.height),
          columns \in SeqsUpTo(0..(m.width - 1), MaxListLen) :
       \E r \in {Table_slice(heap, tm, m, rows, columns)} :
            /\ StoreAll(r.heap, m, r.mat, d2, tm, r.table)
            /\ last' = [Call("Table.slice", "m") EXCEPT !.after = last.op,
                            !.rows = rows, !.columns = columns, !.threw = r.threw]
            /\ UNCHANGED <<nsets, raw, it>>

NextTableSlice == TableSliceLists

SpecTableSlice == InitTableSlice /\ [][NextTableSlice]_vars

(***************************************************************************)
(* The specification of deriving Tables.  The groups of the top header row *)
(* all carry the label A; the steps are set calls on the data and then one *)
(* of td = tm.slice(rows, columns), indices ascending, and                 *)
(* td = tm.without_empty_rows_and_columns().                               *)
(***************************************************************************)
InitDerive == InitHeaded(0..DeriveHeight, DeriveWidth, BOOLEAN, {"A"})

DeriveSet == SetBefore(DeriveSets)

NextDerive ==
    \/ DeriveSet
    \/ TableSlice
    \/ TableWithoutEmpty

SpecDerive == InitDerive /\ [][NextDerive]_vars

(***************************************************************************)
(* The specification of tall Tables: a Table of more than ten rows and one *)
(* column with every cell empty, set calls on its data and then            *)
(* td = tm.without_empty_rows_and_columns().                               *)
(***************************************************************************)
InitTall == InitHeaded({TallHeight}, 1, {FALSE}, {"A"})

TallSet == SetBefore(TallSets)

NextTall ==
    \/ TallSet
    \/ TableWithoutEmpty

SpecTall == InitTall /\ [][NextTall]_vars

(***************************************************************************)
(* The specification of Entry.  The program constructs Entries, with no    *)
(* argument or with one, and calls their methods: heap holds the Entries   *)
(* constructed, last is the last call with its receiver, its arguments,    *)
(* what it returned and the arguments and_modify called fn with, nsets the *)
(* number of calls made.                                                   *)
(***************************************************************************)
EntryValues == {"a", null, undefined}

EntryCall(op, on, args) ==
    [op |-> op, on |-> on, args |-> args, ret |-> Empty, applied |-> <<>>,
     threw |-> NoError]

InitEntry ==
    /\ heap = <<>>
    /\ m = NoMatrix
    /\ d = NoMatrix
    /\ d2 = NoMatrix
    /\ tm = NoTable
    /\ td = NoTable
    /\ raw = <<>>
    /\ it = NoIterator
    /\ nsets = 0
    /\ last = EntryCall("none", 0, <<>>)

EntryStep(H, call) ==
    /\ heap' = H
    /\ last' = call
    /\ nsets' = nsets + 1
    /\ UNCHANGED <<m, d, d2, tm, td, raw, it>>

\* new Entry()  and  new Entry(value)
EntryNew ==
    /\ nsets < MaxEntryCalls
    /\ Len(heap) < MaxEntries
    /\ \E arguments \in SeqsUpTo(EntryValues, 1) :
        EntryStep(Append(heap, Entry_constructor(arguments)),
                  EntryCall("new Entry", Len(heap) + 1, arguments))

\* entry.value = value
EntrySetValue ==
    /\ nsets < MaxEntryCalls
    /\ \E ref \in 1..Len(heap), value \in EntryValues :
        EntryStep(Entry_set_value(heap, ref, value),
                  EntryCall("set value", ref, <<value>>))

\* entry.clear()
EntryClear ==
    /\ nsets < MaxEntryCalls
    /\ \E ref \in 1..Len(heap) :
        EntryStep(clear(heap, ref), EntryCall("clear", ref, <<>>))

\* entry.or_insert(value)
EntryOrInsert ==
    /\ nsets < MaxEntryCalls
    /\ \E ref \in 1..Len(heap), value \in EntryValues :
       \E r \in {or_insert(heap, ref, value)} :
        EntryStep(r.heap, [EntryCall("or_insert", ref, <<value>>) EXCEPT !.ret = r.ret])

\* entry.and_modify(fn)
EntryAndModify ==
    /\ nsets < MaxEntryCalls
    /\ \E ref \in 1..Len(heap), fn \in Functions :
       \E r \in {and_modify(heap, ref, fn)} :
        EntryStep(r.heap, [EntryCall("and_modify", ref, <<fn>>) EXCEPT
                              !.ret = r.ret, !.applied = r.applied])

NextEntry ==
    \/ EntryNew
    \/ EntrySetValue
    \/ EntryClear
    \/ EntryOrInsert
    \/ EntryAndModify

SpecEntry == InitEntry /\ [][NextEntry]_vars

(***************************************************************************)
(* Strings.  A string is the sequence of its characters, so that splitting,*)
(* stripping and the positions of a character are computed as the code     *)
(* computes them.  Indices are 0-based as in the source.                    *)
(***************************************************************************)
\* the smallest and the largest of a set of numbers
Least(S) == CHOOSE s \in S : \A o \in S : s <= o
Greatest(S) == CHOOSE s \in S : \A o \in S : s >= o

\* String.prototype.slice(start, end), 0 <= start
String_slice(str, start, end) ==
    IF start >= end \/ start >= Len(str) THEN <<>>
    ELSE SubSeq(str, start + 1, IF end < Len(str) THEN end ELSE Len(str))

\* String.prototype.split(separator), separator one character
split(str, separator) ==
    LET at == Ascending({i \in 1..Len(str) : str[i] = separator})
    IN  Tuple([k \in 1..(Len(at) + 1) |->
            String_slice(str, IF k = 1 THEN 0 ELSE at[k - 1],
                              IF k > Len(at) THEN Len(str) ELSE at[k] - 1)])

\* Array.prototype.join(separator)
join(strings, separator) ==
    LET joined[k \in 0..Len(strings)] ==
            IF k = 0 THEN <<>>
            ELSE IF k = 1 THEN strings[1]
            ELSE joined[k - 1] \o <<separator>> \o strings[k]
    IN  joined[Len(strings)]

\* the characters String.prototype.trim() removes, and the default of strip()
Whitespace == {" ", "\t", "\n"}

\* utils.mjs strip({ characters, from_beginning, from_end })(str)
strip(characters, from_beginning, from_end, str) ==
    LET kept == {i \in 0..(Len(str) - 1) : str[i + 1] \notin characters}
        start == IF ~from_beginning THEN 0
                 ELSE IF kept = {} THEN Len(str) ELSE Least(kept)
        end == IF ~from_end THEN Len(str)
               ELSE IF kept = {} THEN -1 ELSE Greatest(kept)
    IN  String_slice(str, start, end + 1)

\* utils.mjs strip_whitespace = strip({ characters: " \t\n" })
strip_whitespace(str) == strip(Whitespace, TRUE, TRUE, str)

\* String.prototype.trim()
trim(str) == strip(Whitespace, TRUE, TRUE, str)

\* entry.mjs strip_pipe_from_end = strip({ characters: " |", from_beginning: false })
strip_pipe_from_end(str) == strip({" ", "|"}, FALSE, TRUE, str)

\* entry.mjs out_empty_lines
out_empty_lines(line) == len(strip_whitespace(line)) > 0

\* Array.prototype.filter(out_empty_lines)
filter_out_empty_lines(lines) ==
    LET kept[k \in 0..Len(lines)] ==
            IF k = 0 THEN <<>>
            ELSE IF out_empty_lines(lines[k]) THEN Append(kept[k - 1], lines[k])
                 ELSE kept[k - 1]
    IN  kept[Len(lines)]

\* utils.mjs dedent: the number of spaces line starts with
indented(line) ==
    LET others == {i \in 0..(Len(line) - 1) : line[i + 1] # " "}
    IN  IF others = {} THEN Len(line) ELSE Least(others)

\* utils.mjs dedent(str): the smallest indentation of the lines that are not
\* blank is cut off every line (every line is cut to "" when all are blank:
\* min_indent stays Infinity)
dedent(str) ==
    LET lines == split(str, "\n")
        indents == {indented(lines[k]) : k \in {j \in 1..Len(lines) : trim(lines[j]) # <<>>}}
    IN  join(Tuple([k \in 1..Len(lines) |->
                 IF indents = {} THEN <<>>
                 ELSE String_slice(lines[k], Least(indents), Len(lines[k]))]), "\n")

\* utils.mjs find_all_indexes(character)(s)
find_all_indexes(character, s) ==
    Ascending({i \in 0..(Len(s) - 1) : s[i + 1] = character})

\* what align_columns puts where a line has no pipe at a position of the
\* common column space: null (positions are 0 or more)
placeholder == -1

\* utils.mjs align_columns(arrays)
align_columns(arrays) ==
    LET numbers == Ascending(UNION {Range(arrays[k]) : k \in 1..Len(arrays)})
    IN  Tuple([k \in 1..Len(arrays) |->
            Tuple([i \in 1..Len(numbers) |->
                IF includes(arrays[k], numbers[i]) THEN numbers[i] ELSE placeholder])])

\* entry.mjs lengths_1_and_others:  +!!(len(array) - 1)
lengths_1_and_others(array) == IF len(array) - 1 # 0 THEN 1 ELSE 0

\* utils.mjs group_by(lengths_1_and_others)(iterable): an object with a key
\* for every group that has an element, the elements in the order met
group_by_lengths_1_and_others(iterable) ==
    LET keys == {lengths_1_and_others(iterable[k]) : k \in 1..Len(iterable)}
        group[key \in keys] ==
            LET members[k \in 0..Len(iterable)] ==
                    IF k = 0 THEN <<>>
                    ELSE IF lengths_1_and_others(iterable[k]) = key
                         THEN Append(members[k - 1], iterable[k])
                         ELSE members[k - 1]
            IN  members[Len(iterable)]
    IN  group

(***************************************************************************)
(* entry.mjs parse_tableformat_string(fmt) and Table.from_format(format).  *)
(***************************************************************************)
\* line.split("|").map(column => column.trim())
\*     .filter(s => (s !== "-") && (s !== "")).map(s => ({ text: s, span: 1 }))
header_cells(line) ==
    LET columns == split(line, "|")
        cells[k \in 0..Len(columns)] ==
            IF k = 0 THEN <<>>
            ELSE IF trim(columns[k]) # <<"-">> /\ trim(columns[k]) # <<>>
                 THEN Append(cells[k - 1], [text |-> trim(columns[k]), span |-> 1])
                 ELSE cells[k - 1]
    IN  cells[Len(columns)]

\* const adjusted_index = null_idx === 0 ? 0 : null_idx - num_nulls_before - 1
adjusted_index(null_idx, num_nulls_before) ==
    IF null_idx = 0 THEN 0 ELSE null_idx - num_nulls_before - 1

\* the inner loop of the span adjustment on one row:  ch_row[adjusted_index].span++
\* for every null of pipe_indexes; a TypeError when ch_row has no such cell
adjust_spans(pipe_indexes, ch_row) ==
    LET null_indexes == find_all_indexes(placeholder, pipe_indexes)
        loop[k \in 0..Len(null_indexes)] ==
            IF k = 0 THEN [ch_row |-> ch_row, threw |-> NoError]
            ELSE LET prev == loop[k - 1]
                     index == adjusted_index(null_indexes[k], k - 1)
                 IN  IF prev.threw # NoError THEN prev
                     ELSE IF index < 0 \/ index >= Len(ch_row)
                     THEN [prev EXCEPT !.threw = TypeError]
                     ELSE [prev EXCEPT !.ch_row[index + 1].span = @ + 1]
    IN  loop[Len(null_indexes)]

\* the loop over zip(column_pipe_indexes, column_headers)
adjusted(column_pipe_indexes, column_headers) ==
    LET rows == Tuple([k \in 1..Len(column_headers) |->
                    adjust_spans(column_pipe_indexes[k], column_headers[k])])
    IN  [column_headers |-> Tuple([k \in 1..Len(rows) |-> rows[k].ch_row]),
         threw |-> IF \A k \in 1..Len(rows) : rows[k].threw = NoError
                   THEN NoError ELSE TypeError]

\* parse_tableformat_string from the lines and the groups of their pipe
\* indexes on: the column headers are made of the first lines, as many as
\* there are lines in group 1, the row headers of the lines after these
parsed(fmt, groups) ==
    LET column_pipe_indexes ==
            align_columns(IF 1 \in DOMAIN groups THEN groups[1] ELSE <<>>)
        row_lines == String_slice(fmt, len(column_pipe_indexes), Len(fmt))
        column_lines == String_slice(fmt, 0, len(column_pipe_indexes))
        spans == adjusted(column_pipe_indexes,
                          Tuple([k \in 1..Len(column_lines) |-> header_cells(column_lines[k])]))
    IN  [row_headers |-> Tuple([k \in 1..Len(row_lines) |->
                            strip_whitespace(strip_pipe_from_end(row_lines[k]))]),
         column_headers |-> spans.column_headers,
         threw |-> spans.threw]

\* the lines of the format:  dedent(fmt).split("\n").filter(out_empty_lines)
format_lines(fmt) == filter_out_empty_lines(split(dedent(fmt), "\n"))

\* fmt.map(find_all_indexes("|"))
pipe_indexes_of(lines) ==
    Tuple([k \in 1..Len(lines) |-> find_all_indexes("|", lines[k])])

parse_lines(lines) == parsed(lines, group_by_lengths_1_and_others(pipe_indexes_of(lines)))

\* entry.mjs parse_tableformat_string(fmt)
parse_tableformat_string(fmt) == parse_lines(format_lines(fmt))

\* utils.mjs max(iterable) of numbers
max(iterable) == IF iterable = <<>> THEN Empty ELSE Greatest(Range(iterable))

\* utils.mjs max_or(iterable, value) returning value whatever the iterable holds
max_or_always_the_default(iterable, value) == value

\* utils.mjs max_or(iterable, value)
max_or(iterable, value) == IF iterable = <<>> THEN value ELSE max(iterable)

\* Table.from_format from the parsed headers on
from_parsed(H, caption, p) ==
    IF p.threw # NoError
    THEN [heap |-> H, mat |-> NoMatrix, table |-> NoTable, threw |-> p.threw]
    ELSE LET width == max_or(Tuple([k \in 1..Len(p.column_headers) |->
                                       len(p.column_headers[k])]), 1)
             height == IF len(p.row_headers) # 0 THEN len(p.row_headers) ELSE 1
             data == NewMatrix(H, height, width)
             tb == NewTable(data.heap, caption, p.row_headers, p.column_headers)
         IN  [heap |-> tb.heap, mat |-> data.mat, table |-> tb.table, threw |-> NoError]

\* a string value and a value of another type, by what typeof says of it
Text(text) == [typeof |-> "string", text |-> text]
NonString(type) == [typeof |-> type, text |-> <<>>]

\* Table.from_format(format, { caption })
from_format(H, format, caption) ==
    IF format.typeof # "string"
    THEN [heap |-> H, mat |-> NoMatrix, table |-> NoTable, threw |-> TypeError]
    ELSE from_parsed(H, caption, parse_tableformat_string(format.text))

(***************************************************************************)
(* The specification of from_format.  raw is the format text, any string   *)
(* of at most MaxFormatLen of the characters of FormatCharacters; the step *)
(* is tm = Table.from_format(raw), m = tm.data, or Table.from_format of a  *)
(* value that is not a string.                                             *)
(***************************************************************************)
FormatCharacters == {"a", "|", " ", "\n"}

\* what typeof says of the values that are not strings
NonStringTypes == {"undefined", "object", "number"}

InitFormat ==
    /\ raw \in SeqsUpTo(FormatCharacters, MaxFormatLen)
    /\ it = NoIterator
    /\ heap = <<>>
    /\ m = NoMatrix
    /\ d = NoMatrix
    /\ d2 = NoMatrix
    /\ tm = NoTable
    /\ td = NoTable
    /\ nsets = 0
    /\ last = Call("none", "")

FromFormat ==
    /\ last.op = "none"
    /\ \E r \in {from_format(heap, Text(raw), null)} :
        /\ StoreAll(r.heap, r.mat, d, d2, r.table, td)
        /\ last' = [Call("from_format", "raw") EXCEPT !.after = last.op,
                        !.value = "string", !.threw = r.threw]
        /\ UNCHANGED <<nsets, raw, it>>

\* Table.from_format(format) with a format that is not a string (the text
\* raw plays no part in the call: it is made where there is no text)
FromFormatNonString ==
    /\ last.op = "none"
    /\ raw = <<>>
    /\ \E type \in NonStringTypes :
       \E r \in {from_format(heap, NonString(type), null)} :
        /\ StoreAll(r.heap, r.mat, d, d2, r.table, td)
        /\ last' = [Call("from_format", "") EXCEPT !.after = last.op,
                        !.value = type, !.threw = r.threw]
        /\ UNCHANGED <<nsets, raw, it>>

NextFormat == FromFormat \/ FromFormatNonString

SpecFormat == InitFormat /\ [][NextFormat]_vars

(***************************************************************************)
(* The specification of the header lines: from_format on the longer texts  *)
(* of labels, pipes and line ends alone (no indentation, no padding), long *)
(* enough for two header lines of three labels.                            *)
(***************************************************************************)
HeaderCharacters == {"a", "|", "\n"}

InitHeaderLines ==
    /\ raw \in SeqsUpTo(HeaderCharacters, MaxHeaderTextLen)
    /\ it = NoIterator
    /\ heap = <<>>
    /\ m = NoMatrix
    /\ d = NoMatrix
    /\ d2 = NoMatrix
    /\ tm = NoTable
    /\ td = NoTable
    /\ nsets = 0
    /\ last = Call("none", "")

SpecHeaderLines == InitHeaderLines /\ [][NextFormat]_vars

(***************************************************************************)
(* The specification of set alone: set calls on m with every index from    *)
(* one below to one above the dimensions and the values "a", undefined     *)
(* and null.                                                               *)
(***************************************************************************)
SetValues == {"a", undefined, null}

InitSet == InitMatrix(SetHeight, SetWidth)

\* m.set(y, x, value)
SetAny ==
    \E y \in -1..m.height, x \in -1..m.width, value \in SetValues :
        /\ Running
        /\ nsets < SetCalls
        /\ SetCell(y, x, value)

NextSet == SetAny

SpecSet == InitSet /\ [][NextSet]_vars

(***************************************************************************)
(* Matrix.as_console_str({ empty_indicator }).  The values a cell holds    *)
(* here are the string "a" and the falsy undefined, null, 0, false and "". *)
(* String(value) is the text JavaScript gives a primitive value; str of an *)
(* Entry is String(entry), which goes through Entry[Symbol.toPrimitive]:   *)
(* "Entry<(empty)>" for an empty Entry, else the text of its value.        *)
(***************************************************************************)
zero == "number 0"
false == "boolean false"
empty_string == "string ''"

ConsoleValues == {"a", undefined, null, zero, false, empty_string}

\* String(value), value a primitive
String(value) ==
    CASE value = undefined -> <<"u", "n", "d", "e", "f", "i", "n", "e", "d">>
      [] value = null -> <<"n", "u", "l", "l">>
      [] value = zero -> <<"0">>
      [] value = false -> <<"f", "a", "l", "s", "e">>
      [] value = empty_string -> <<>>
      [] OTHER -> <<value>>

\* utils.mjs str(obj), obj an Entry
str(H, entry) ==
    IF is_empty(H, entry)
    THEN <<"E", "n", "t", "r", "y", "<", "(", "e", "m", "p", "t", "y", ")", ">">>
    ELSE String(H[entry].value)

\* what is rendered for a cell when a falsy value is taken for no value
console_token_falsy_as_empty(H, entry, empty_indicator) ==
    IF empty_indicator.typeof = "string"
       /\ H[entry].value \in {Empty, undefined, null, zero, false, empty_string}
    THEN empty_indicator.text
    ELSE str(H, entry)

\* what is rendered for a cell: the empty_indicator for an empty Entry when
\* the indicator is a string, else str of the Entry
console_token(H, entry, empty_indicator) ==
    IF empty_indicator.typeof = "string" /\ is_empty(H, entry)
    THEN empty_indicator.text
    ELSE str(H, entry)

\* utils.mjs pad_center(size)(str): " ".repeat(count) truncates its count
pad_center(size, string) ==
    LET to_pad == size - len(string)
        left == to_pad \div 2
        right == (to_pad \div 2) + (to_pad % 2)
    IN  IF to_pad <= 0 THEN string
        ELSE Tuple([i \in 1..left |-> " "]) \o string \o Tuple([i \in 1..right |-> " "])

\* Array.prototype.join(separator), separator a string
join_with(strings, separator) ==
    LET joined[k \in 0..Len(strings)] ==
            IF k = 0 THEN <<>>
            ELSE IF k = 1 THEN strings[1]
            ELSE joined[k - 1] \o separator \o strings[k]
    IN  joined[Len(strings)]

as_console_str(H, mat, empty_indicator) ==
    LET stringified_lines ==
            Tuple([y \in 1..mat.height |->
                Tuple([x \in 1..mat.width |->
                    console_token(H, get(H, mat, y - 1, x - 1).ref, empty_indicator)])])
        widest_entry ==
            max_or(Tuple([y \in 1..Len(stringified_lines) |->
                       max_or(Tuple([x \in 1..Len(stringified_lines[y]) |->
                                  len(stringified_lines[y][x])]), 0)]), 0)
    IN  join_with(Tuple([y \in 1..Len(stringified_lines) |->
                     join_with(Tuple([x \in 1..Len(stringified_lines[y]) |->
                                   pad_center(widest_entry, stringified_lines[y][x])]),
                               <<" ", "|", " ">>)]),
                  <<"\n">>)

(***************************************************************************)
(* The specification of as_console_str: set calls on m within its          *)
(* dimensions and m.as_console_str({ empty_indicator }) with the           *)
(* indicators "-" (the default), "??" and null, as the last call.         *)
(***************************************************************************)
EmptyIndicators == {Text(<<"-">>), Text(<<"?", "?">>), NonString("object")}

InitConsole == InitMatrix(ConsoleHeight, ConsoleWidth)

\* m.set(y, x, value), within the dimensions
ConsoleSet ==
    /\ Running
    /\ last.op # "as_console_str"
    /\ nsets < ConsoleSets
    /\ \E y \in 0..(m.height - 1), x \in 0..(m.width - 1), value \in ConsoleValues :
            SetCell(y, x, value)

\* m.as_console_str({ empty_indicator })
AsConsoleStr ==
    /\ Running
    /\ last.op # "as_console_str"
    /\ \E empty_indicator \in EmptyIndicators :
            last' = [Call("as_console_str", "m") EXCEPT !.after = last.op,
                        !.value = empty_indicator,
                        !.ret = as_console_str(heap, m, empty_indicator)]
    /\ UNCHANGED <<heap, m, d, d2, tm, td, raw, nsets, it>>

NextConsole == ConsoleSet \/ AsConsoleStr

SpecConsole == InitConsole /\ [][NextConsole]_vars

(***************************************************************************)
(* Matrix constructor with opts.fill:                                      *)
(*     const fill = opts.fill;                                             *)
(*     this.#data = Array(height);                                         *)
(*     for (let y = 0; y < height; y++) {                                  *)
(*         this.#data[y] = Array(width);                                   *)
(*         for (let x = 0; x < width; x++) this.set(y, x, fill(x, y));     *)
(*     }                                                                   *)
(* A fill is a function, (x, y) => "r" + y + "c" + x or () => undefined,   *)
(* or a value that is no function, "a" or undefined.  Calling a value that *)
(* is no function throws a TypeError, and a constructor that throws gives  *)
(* no Matrix.  (The rows are allocated here before the first set; the      *)
(* Array(width) of a row holds no element, ref 0, until its set.)          *)
(***************************************************************************)
Fills ==
    {[typeof |-> "function", is |-> "coordinates"], [typeof |-> "function", is |-> "nothing"],
     [typeof |-> "string", is |-> "a"], [typeof |-> "undefined", is |-> undefined]}

\* fill(x, y)
call_fill(fill, x, y) ==
    IF fill.typeof # "function" THEN [value |-> Empty, threw |-> TypeError]
    ELSE [value |-> IF fill.is = "coordinates" THEN Label(y, x) ELSE undefined,
          threw |-> NoError]

NewMatrix_with_fill(H, height, width, fill) ==
    LET rows == Tuple([y \in 1..height |-> ArrayObj(Tuple([x \in 1..width |-> 0]))])
        data == ArrayObj(Tuple([y \in 1..height |-> Len(H) + y]))
        mat == [height |-> height, width |-> width, data |-> Len(H) + height + 1]
        cells == height * width
        loop[k \in 0..cells] ==
            IF k = 0 THEN [heap |-> (H \o rows) \o <<data>>, threw |-> NoError]
            ELSE LET prev == loop[k - 1]
                     y == (k - 1) \div width
                     x == (k - 1) % width
                     filled == call_fill(fill, x, y)
                 IN  IF prev.threw # NoError THEN prev
                     ELSE IF filled.threw # NoError THEN [prev EXCEPT !.threw = filled.threw]
                     ELSE set(prev.heap, mat, y, x, filled.value)
        end == loop[cells]
    IN  IF end.threw # NoError
        THEN [heap |-> H, mat |-> NoMatrix, threw |-> end.threw]
        ELSE [heap |-> end.heap, mat |-> mat, threw |-> NoError]

(***************************************************************************)
(* The specification of the constructor with opts.fill:                    *)
(* m = new Matrix(height, width, { fill }), then set calls on m within its *)
(* dimensions.                                                             *)
(***************************************************************************)
InitFill ==
    /\ d = NoMatrix
    /\ d2 = NoMatrix
    /\ tm = NoTable
    /\ td = NoTable
    /\ raw = <<>>
    /\ it = NoIterator
    /\ nsets = 0
    /\ \E height \in 0..FillHeight, width \in 0..FillWidth, fill \in Fills :
       \E n \in {NewMatrix_with_fill(<<>>, height, width, fill)} :
       \E c \in {Collect(n.heap, RootsOf(n.mat))} :
            /\ heap = c.heap
            /\ m = Moved(n.mat, c.new)
            /\ last = [Call("new Matrix(height, width, { fill })", "m") EXCEPT
                          !.y = height, !.x = width, !.value = fill, !.threw = n.threw]

\* m.set(y, x, value), within the dimensions
FillSet ==
    /\ Running
    /\ nsets < FillSets
    /\ \E y \in 0..(m.height - 1), x \in 0..(m.width - 1), value \in Values :
            SetCell(y, x, value)

NextFill == FillSet

SpecFill == InitFill /\ [][NextFill]_vars

(***************************************************************************)
(* The specification of despan and respan.  raw is a list of at most two   *)
(* header rows (up to MaxCells cells { text, span } each, the texts A and  *)
(* B, the spans 1..MaxSpan) or of at most two label rows (up to MaxLabels  *)
(* labels each); the steps apply despan or respan to it and then the       *)
(* other of the two to what the first returned.                            *)
(***************************************************************************)
HeaderCells == [text : HeaderTexts, span : 1..MaxSpan]

InitSpan ==
    /\ heap = <<>>
    /\ m = NoMatrix
    /\ d = NoMatrix
    /\ d2 = NoMatrix
    /\ tm = NoTable
    /\ td = NoTable
    /\ nsets = 0
    /\ it = NoIterator
    /\ \/ /\ last = Call("none", "column_headers")
          /\ \E top, bottom \in SeqsUpTo(HeaderCells, MaxCells) :
                raw \in {<<>>, <<top>>, <<top, bottom>>}
       \/ /\ last = Call("none", "labels")
          /\ \E top, bottom \in SeqsUpTo(HeaderTexts, MaxLabels) :
                raw \in {<<>>, <<top>>, <<top, bottom>>}

\* what the next call is given: raw, or what the call before returned
SpanArgument == IF last.op = "none" THEN raw ELSE last.ret

\* despan(column_headers)
Despan ==
    /\ \/ last.op = "none" /\ last.on = "column_headers"
       \/ last.op = "respan" /\ last.after = "none"
    /\ last' = [Call("despan", last.on) EXCEPT !.after = last.op,
                    !.ret = despan(SpanArgument)]
    /\ UNCHANGED <<heap, m, d, d2, tm, td, raw, nsets, it>>

\* respan(labels)
Respan ==
    /\ \/ last.op = "none" /\ last.on = "labels"
       \/ last.op = "despan" /\ last.after = "none"
    /\ last' = [Call("respan", last.on) EXCEPT !.after = last.op,
                    !.ret = respan(SpanArgument)]
    /\ UNCHANGED <<heap, m, d, d2, tm, td, raw, nsets, it>>

NextSpan == Despan \/ Respan

SpecSpan == InitSpan /\ [][NextSpan]_vars

(***************************************************************************)
(* matrix.mjs *entries(), one next() at a time.  The generator object      *)
(* holds the place its loops have come to: next is the number, in          *)
(* row-major order, of the next cell the loops look at; yielded are the    *)
(* items its next() calls returned, done whether a next() found the loops  *)
(* at their end.  snapshot is as_array of the Matrix and sets the number   *)
(* of set calls at the call of entries().                                  *)
(***************************************************************************)
\* it.next(): the loops of entries() from the cell numbered position on, up
\* to the first yield, when there the test of is_not_empty() is left out
entries_next_of_every_cell(H, mat, position) ==
    IF position >= mat.height * mat.width
    THEN [done |-> TRUE, next |-> mat.height * mat.width, value |-> undefined]
    ELSE LET y == position \div mat.width
             x == position % mat.width
         IN  [done |-> FALSE, next |-> position + 1,
              value |-> [y |-> y, x |-> x, value |-> H[get(H, mat, y, x).ref].value]]

\* it.next(): the loops of entries() from the cell numbered position on, up
\* to the first yield or to their end
entries_next(H, mat, position) ==
    LET cells == mat.height * mat.width
        found == {k \in position..(cells - 1) :
                    is_not_empty(H, get(H, mat, k \div mat.width, k % mat.width).ref)}
    IN  IF found = {}
        THEN [done |-> TRUE, next |-> cells, value |-> undefined]
        ELSE LET k == Least(found)
                 y == k \div mat.width
                 x == k % mat.width
             IN  [done |-> FALSE, next |-> k + 1,
                  value |-> [y |-> y, x |-> x, value |-> H[get(H, mat, y, x).ref].value]]

(***************************************************************************)
(* The specification of the generator: set calls on m, it = m.entries()    *)
(* at any time (a fresh call, whatever an earlier generator has come to),  *)
(* and it.next() until it is done, in any interleaving.                    *)
(***************************************************************************)
InitIterate == InitMatrix(IterHeight, IterWidth)

\* m.set(y, x, value), within the dimensions
IterateSet ==
    /\ Running
    /\ nsets < IterSets
    /\ \E y \in 0..(m.height - 1), x \in 0..(m.width - 1), value \in Values :
            SetCell(y, x, value)

\* it = m.entries()
Entries ==
    /\ Running
    /\ it' = [on |-> "m", next |-> 0, done |-> FALSE, yielded |-> <<>>,
              snapshot |-> as_array(heap, m, Empty), sets |-> nsets]
    /\ last' = [Call("entries", "m") EXCEPT !.after = last.op]
    /\ UNCHANGED <<heap, m, d, d2, tm, td, raw, nsets>>

\* it.next()
IterateNext ==
    /\ Running
    /\ it.on = "m"
    /\ ~it.done
    /\ \E r \in {entries_next(heap, m, it.next)} :
        /\ it' = [it EXCEPT !.next = r.next, !.done = r.done,
                      !.yielded = IF r.done THEN @ ELSE Append(@, r.value)]
        /\ last' = [Call("next", "it") EXCEPT !.after = last.op,
                        !.ret = IF r.done THEN undefined ELSE r.value.value]
    /\ UNCHANGED <<heap, m, d, d2, tm, td, raw, nsets>>

NextIterate ==
    \/ IterateSet
    \/ Entries
    \/ IterateNext

SpecIterate == InitIterate /\ [][NextIterate]_vars

(***************************************************************************)
(* Vocabulary of the properties.                                           *)
(***************************************************************************)
OutOfRange(mat, y, x) ==
    \/ mat.height = 0
    \/ mat.width = 0
    \/ y < 0
    \/ y >= mat.height
    \/ x < 0
    \/ x >= mat.width

\* the receiver and the result of the last structural operation
Source == IF last.on = "m" THEN m ELSE d
Result == IF last.on = "m" THEN d ELSE d2

Returned(op) == last.op = op /\ last.threw.name = "none"

\* the rows and the columns holding at least one non-empty cell
KeptRows(H, mat) ==
    {y \in 0..(mat.height - 1) : \E x \in 0..(mat.width - 1) : Cell(H, mat, y, x) # Empty}
KeptColumns(H, mat) ==
    {x \in 0..(mat.width - 1) : \E y \in 0..(mat.height - 1) : Cell(H, mat, y, x) # Empty}

\* the i-th (from 0) element of a set of numbers in ascending order
Nth(S, i) == CHOOSE s \in S : Cardinality({o \in S : o < s}) = i

\* #data has #height rows of #width cells (for a Matrix built by set_raw_data
\* with no rows, and for one of height 0, #data has no rows)
WellFormed(H, mat) ==
    /\ NumRows(H, mat) = mat.height
    /\ \A y \in 0..(mat.height - 1) : RowLen(H, mat, y) = mat.width

\* an index map as the set of its keys and as a function of them
Keys(map) == {map[i].key : i \in 1..Len(map)}
At(map, key) == (CHOOSE i \in 1..Len(map) : map[i].key = key)

\* an array of arrays whose rows all have the length of the first, and the
\* indexes of the rows that have not
Offending(R) == {y \in 0..(Len(R) - 1) : Len(R[y + 1]) # Len(R[1])}
Rectangular(R) == Offending(R) = {}

\* the objects two structures both reach
Reach(H, roots) == Range(Walk(H, roots))
Shared(H, mat, tab, derived, dtab) ==
    Reach(H, RootsOf(mat) \o TableRoots(tab)) \cap Reach(H, RootsOf(derived) \o TableRoots(dtab))

DeriveOps ==
    {"transpose", "slice", "without_empty_rows_and_columns",
     "Table.slice", "Table.without_empty_rows_and_columns"}

(***************************************************************************)
(* C1.  get(row, col) and set(row, col, v) on a Matrix of height h and     *)
(* width w throw OutOfBoundsError exactly when h = 0 or w = 0 or row < 0   *)
(* or row >= h or col < 0 or col >= w and return in every other case, and  *)
(* a call that throws leaves the dimensions and every cell as they were.   *)
(***************************************************************************)
C1_Step ==
    last'.op \in {"get", "set"} =>
        /\ last'.threw.name = "OutOfBoundsError" <=> OutOfRange(m, last'.y, last'.x)
        /\ last'.threw.name = "none" <=> ~OutOfRange(m, last'.y, last'.x)
        /\ last'.threw.name # "none" => View(heap', m') = View(heap, m)
        /\ last'.op = "set" /\ last'.threw.name = "none" =>
               /\ m'.height = m.height /\ m'.width = m.width
               /\ Cell(heap', m', last'.y, last'.x) = last'.value

C1_OutOfBounds == [][C1_Step]_vars

C1_Witness ==
    /\ last.op = "set"
    /\ last.threw.name = "OutOfBoundsError"
    /\ last.y = m.height
    /\ last.x = 0
    /\ m.width > 0
    /\ nsets > 0

(***************************************************************************)
(* C2.  new Matrix(h, w) has height h, width w and only empty cells:       *)
(* as_array() is h rows of w undefined.  new Matrix() and new Matrix(0, 0) *)
(* are 0x0 with as_array() = [], and every get and set on a 0x0 Matrix     *)
(* throws OutOfBoundsError.                                                *)
(***************************************************************************)
C2_Constructor ==
    /\ last.op = "new Matrix(height, width)" =>
           /\ m.height = last.y
           /\ m.width = last.x
           /\ WellFormed(heap, m)
           /\ \A y \in 0..(m.height - 1), x \in 0..(m.width - 1) :
                  is_empty(heap, get(heap, m, y, x).ref)
           /\ as_array(heap, m, undefined)
                  = [y \in 1..last.y |-> [x \in 1..last.x |-> undefined]]
           /\ (last.y = 0 /\ last.x = 0) => as_array(heap, m, undefined) = <<>>
    /\ last.op = "new Matrix()" =>
           /\ m.height = 0
           /\ m.width = 0
           /\ as_array(heap, m, undefined) = <<>>
    /\ (last.op \in {"get", "set"} /\ m.height = 0 /\ m.width = 0) =>
           last.threw.name = "OutOfBoundsError"

C2_Witness ==
    /\ last.op = "new Matrix(height, width)"
    /\ last.y = 1
    /\ last.x = 2
    /\ as_array(heap, m, undefined) = <<<<undefined, undefined>>>>

(***************************************************************************)
(* C4.  without_empty_rows_and_columns() returns a Matrix whose rows are   *)
(* exactly the receiver's rows holding a non-empty cell and whose columns  *)
(* are exactly its columns holding one, in ascending order: result cell    *)
(* (i, j) is the receiver's cell (i-th kept row, j-th kept column), every  *)
(* non-empty cell of the receiver is in the result, and a receiver with    *)
(* only empty cells gives a 0x0 Matrix.                                    *)
(***************************************************************************)
C4_Pruned ==
    last.op = "without_empty_rows_and_columns" =>
        LET rows == KeptRows(heap, Source)
            columns == KeptColumns(heap, Source)
        IN  /\ last.threw.name = "none"
            /\ Result.height = Cardinality(rows)
            /\ Result.width = Cardinality(columns)
            /\ WellFormed(heap, Result)
            /\ \A i \in 0..(Result.height - 1), j \in 0..(Result.width - 1) :
                   Cell(heap, Result, i, j) = Cell(heap, Source, Nth(rows, i), Nth(columns, j))
            /\ \A y \in 0..(Source.height - 1), x \in 0..(Source.width - 1) :
                   Cell(heap, Source, y, x) # Empty =>
                       \E i \in 0..(Result.height - 1), j \in 0..(Result.width - 1) :
                           /\ Nth(rows, i) = y
                           /\ Nth(columns, j) = x
                           /\ Cell(heap, Result, i, j) = Cell(heap, Source, y, x)
            /\ Matrix_is_empty(heap, Source) => Result.height = 0 /\ Result.width = 0

C4_Witness ==
    /\ Returned("without_empty_rows_and_columns")
    /\ last.on = "m"
    /\ m.height = 2
    /\ m.width = 2
    /\ KeptRows(heap, m) = {1}
    /\ KeptColumns(heap, m) = {0, 1}
    /\ d.height = 1
    /\ d.width = 2

(***************************************************************************)
(* C5.  without_empty_rows_and_columns never increases a dimension, every  *)
(* row and every column of its result P holds a non-empty cell, and        *)
(* applied to P it returns a Matrix of P's shape and P's cell contents.    *)
(***************************************************************************)
C5_Idempotent ==
    last.op = "without_empty_rows_and_columns" =>
        /\ last.threw.name = "none"
        /\ Result.height <= Source.height
        /\ Result.width <= Source.width
        /\ KeptRows(heap, Result) = 0..(Result.height - 1)
        /\ KeptColumns(heap, Result) = 0..(Result.width - 1)
        /\ (last.on = "d" /\ last.after = "without_empty_rows_and_columns") =>
               View(heap, d2) = View(heap, d)

C5_Witness ==
    /\ Returned("without_empty_rows_and_columns")
    /\ last.on = "d"
    /\ last.after = "without_empty_rows_and_columns"
    /\ d.height = 1
    /\ d.height < m.height
    /\ d.width = 2
    /\ View(heap, d2) = View(heap, d)

(***************************************************************************)
(* C6.  The maps new_rows and new_columns that                             *)
(* without_empty_rows_and_columns returns have exactly the kept rows and   *)
(* exactly the kept columns as keys, are strictly increasing, take exactly *)
(* the values 0..n-1, and result cell (new_rows[r], new_columns[c]) is the *)
(* receiver's cell (r, c) for every kept r and c.                          *)
(***************************************************************************)
C6_IndexMaps ==
    last.op = "without_empty_rows_and_columns" =>
        LET rows == KeptRows(heap, Source)
            columns == KeptColumns(heap, Source)
            new_rows == last.new_rows
            new_columns == last.new_columns
            Increasing(map) ==
                \A i, j \in 1..Len(map) :
                    map[i].key < map[j].key <=> map[i].value < map[j].value
            Onto(map, n) == {map[i].value : i \in 1..Len(map)} = 0..(n - 1)
        IN  /\ last.threw.name = "none"
            /\ Keys(new_rows) = rows
            /\ Keys(new_columns) = columns
            /\ Len(new_rows) = Cardinality(rows)
            /\ Len(new_columns) = Cardinality(columns)
            /\ Increasing(new_rows)
            /\ Increasing(new_columns)
            /\ Onto(new_rows, Result.height)
            /\ Onto(new_columns, Result.width)
            /\ \A r \in rows, c \in columns :
                   Cell(heap, Result, new_rows[At(new_rows, r)].value,
                        new_columns[At(new_columns, c)].value)
                       = Cell(heap, Source, r, c)

C6_Witness ==
    /\ Returned("without_empty_rows_and_columns")
    /\ last.on = "m"
    /\ last.new_rows = <<[key |-> 1, value |-> 0]>>
    /\ last.new_columns = <<[key |-> 0, value |-> 0], [key |-> 1, value |-> 1]>>

(***************************************************************************)
(* C7.  M.transpose() of a Matrix of shape h x w (a zero dimension         *)
(* included) has shape w x h and its cell (r, c) is M's cell (c, r);       *)
(* M.transpose().transpose() has M's shape and M's cell contents.          *)
(***************************************************************************)
C7_Transpose ==
    last.op = "transpose" =>
        /\ last.threw.name = "none"
        /\ Result.height = Source.width
        /\ Result.width = Source.height
        /\ WellFormed(heap, Result)
        /\ \A r \in 0..(Result.height - 1), c \in 0..(Result.width - 1) :
               Cell(heap, Result, r, c) = Cell(heap, Source, c, r)
        /\ (last.on = "d" /\ last.after = "transpose") =>
               /\ d2.height = m.height
               /\ d2.width = m.width
               /\ \A y \in 0..(m.height - 1), x \in 0..(m.width - 1) :
                      Cell(heap, d2, y, x) = Cell(heap, m, y, x)

C7_Witness ==
    /\ Returned("transpose")
    /\ last.on = "d"
    /\ last.after = "transpose"
    /\ m.height = 1
    /\ m.width = 2
    /\ Cell(heap, m, 0, 0) = "a"
    /\ Cell(heap, m, 0, 1) = undefined
    /\ d.height = 2
    /\ Cell(heap, d, 1, 0) = undefined
    /\ View(heap, d2) = View(heap, m)

(***************************************************************************)
(* C3.  slice(rows, columns) with index lists within the Matrix, in any    *)
(* order and with repetitions, returns a Matrix with one row per distinct  *)
(* row index and one column per distinct column index, whose cell (i, j)   *)
(* is the receiver's cell (R[i], C[j]), R and C being the distinct indices *)
(* in ascending order: the result depends on the sets of indices only, and *)
(* slice([], []) is 0x0.                                                   *)
(***************************************************************************)
C3_Slice ==
    last.op = "slice" =>
        LET R == Range(last.rows)
            C == Range(last.columns)
        IN  /\ last.threw.name = "none"
            /\ d.height = Cardinality(R)
            /\ d.width = Cardinality(C)
            /\ WellFormed(heap, d)
            /\ \A i \in 0..(d.height - 1), j \in 0..(d.width - 1) :
                   Cell(heap, d, i, j) = Cell(heap, m, Nth(R, i), Nth(C, j))
            /\ (last.rows = <<>> /\ last.columns = <<>>) =>
                   d.height = 0 /\ d.width = 0 /\ as_array(heap, d, undefined) = <<>>

C3_Witness ==
    /\ Returned("slice")
    /\ last.rows = <<1, 0>>
    /\ last.columns = <<0, 0>>
    /\ Cell(heap, m, 0, 0) = Label(0, 0)
    /\ Cell(heap, m, 1, 0) = Empty
    /\ d.height = 2
    /\ d.width = 1
    /\ Cell(heap, d, 0, 0) = Label(0, 0)
    /\ Cell(heap, d, 1, 0) = Empty


(***************************************************************************)
(* C8.  For a rectangular array raw of raw values (every row as long as    *)
(* the first, [] included) Matrix.from_data(raw) returns a Matrix whose    *)
(* height is the number of rows of raw and whose width is the length of    *)
(* its first row (0x0 for []), every cell of it is non-empty and holds the *)
(* raw value of its place, and as_array() of it equals raw.                *)
(***************************************************************************)
C8_RoundTrip ==
    (last.op \in {"from_data", "as_array"} /\ Rectangular(raw)) =>
        /\ last.threw.name = "none"
        /\ m # NoMatrix
        /\ m.height = Len(raw)
        /\ m.width = IF Len(raw) = 0 THEN 0 ELSE Len(raw[1])
        /\ WellFormed(heap, m)
        /\ \A y \in 0..(m.height - 1), x \in 0..(m.width - 1) :
               LET entry == get(heap, m, y, x)
               IN  /\ entry.threw.name = "none"
                   /\ is_not_empty(heap, entry.ref)
                   /\ heap[entry.ref].value = raw[y + 1][x + 1]
        /\ as_array(heap, m, undefined) = raw
        /\ last.op = "as_array" => last.ret = raw

C8_Witness ==
    /\ last.op = "as_array"
    /\ raw = <<<<"a", undefined>>, <<undefined, "a">>>>
    /\ m.height = 2
    /\ m.width = 2
    /\ last.ret = raw

(***************************************************************************)
(* C9.  Matrix.from_data on an array of arrays with a row whose length is  *)
(* not the first row's throws a ValueError and constructs no Matrix; the   *)
(* error (by its cause, the ValueError of set_raw_data) names the lowest   *)
(* index of such a row, the length of that row and the expected length.    *)
(***************************************************************************)
C9_Ragged ==
    (last.op = "from_data" /\ ~Rectangular(raw)) =>
        LET first == CHOOSE y \in Offending(raw) : \A other \in Offending(raw) : y <= other
        IN  /\ last.threw.name = "ValueError"
            /\ m = NoMatrix
            /\ heap = <<>>
            /\ last.threw.cause.name = "ValueError"
            /\ last.threw.cause.row = first
            /\ last.threw.cause.actual = Len(raw[first + 1])
            /\ last.threw.cause.expected = Len(raw[1])

C9_Witness ==
    /\ last.op = "from_data"
    /\ last.threw.name = "ValueError"
    /\ Len(raw) = 3
    /\ Len(raw[1]) = 1
    /\ Len(raw[2]) = 2
    /\ Len(raw[3]) = 0
    /\ last.threw.cause.row = 1
    /\ last.threw.cause.actual = 2
    /\ last.threw.cause.expected = 1
    /\ m = NoMatrix

(***************************************************************************)
(* C10.  transpose, slice and without_empty_rows_and_columns of a Matrix   *)
(* and slice and without_empty_rows_and_columns of a Table return without  *)
(* changing the receiver (dimensions, cells, caption and headers) and      *)
(* their result shares no object with it; every later set on the source    *)
(* leaves the result as it was and every later set on the result leaves    *)
(* the source as it was.                                                   *)
(***************************************************************************)
C10_Step ==
    /\ last'.op \in DeriveOps =>
           /\ last'.threw.name = "none"
           /\ d' # NoMatrix
           /\ View(heap', m') = View(heap, m)
           /\ TableView(heap', tm') = TableView(heap, tm)
           /\ Shared(heap', m', tm', d', td') = {}
    /\ (last'.op = "set" /\ last'.on = "m") =>
           /\ last'.threw.name = "none"
           /\ Cell(heap', m', last'.y, last'.x) = last'.value
           /\ View(heap', d') = View(heap, d)
           /\ TableView(heap', td') = TableView(heap, td)
           /\ TableView(heap', tm') = TableView(heap, tm)
           /\ Shared(heap', m', tm', d', td') = {}
    /\ (last'.op = "set" /\ last'.on = "d") =>
           /\ last'.threw.name = "none"
           /\ Cell(heap', d', last'.y, last'.x) = last'.value
           /\ View(heap', m') = View(heap, m)
           /\ TableView(heap', tm') = TableView(heap, tm)
           /\ TableView(heap', td') = TableView(heap, td)
           /\ Shared(heap', m', tm', d', td') = {}

C10_NoAliasing == [][C10_Step]_vars

C10_Witness ==
    /\ Returned("set")
    /\ last.on = "d"
    /\ last.after = "Table.slice"
    /\ td # NoTable
    /\ TableView(heap, td).row_headers = <<"row0">>
    /\ m.width = 2
    /\ d.width = 2
    /\ Cell(heap, d, 0, 0) = "z"
    /\ Cell(heap, m, 0, 0) = Label(0, 0)

(***************************************************************************)
(* C11.  Entry emptiness: after any sequence of calls, an Entry            *)
(* constructed with no argument is empty; an Entry constructed with an     *)
(* argument, null and undefined included, is not empty and its value is    *)
(* that argument; after an assignment to .value the Entry is not empty and *)
(* holds the value assigned, null and undefined included; after clear() it *)
(* is empty; and is_not_empty() is the negation of is_empty() for every    *)
(* Entry.                                                                  *)
(***************************************************************************)
C11_Emptiness ==
    /\ \A ref \in 1..Len(heap) : is_not_empty(heap, ref) = ~is_empty(heap, ref)
    /\ last.op = "new Entry" /\ last.args = <<>> => is_empty(heap, last.on)
    /\ last.op \in {"new Entry", "set value"} /\ last.args # <<>> =>
            /\ is_not_empty(heap, last.on)
            /\ ~is_empty(heap, last.on)
            /\ Entry_value(heap, last.on) = last.args[1]
    /\ last.op = "clear" => is_empty(heap, last.on) /\ ~is_not_empty(heap, last.on)

\* new Entry(undefined) was called, and an Entry that was cleared has been
\* assigned null
C11_Witness ==
    \/ last.op = "new Entry" /\ last.args = <<undefined>>
    \/ /\ last.op = "set value" /\ last.args = <<null>> /\ nsets >= 3

(***************************************************************************)
(* C12.  or_insert(v) stores v when the Entry is empty and leaves the      *)
(* value of an Entry that is not empty as it was; and_modify(fn) replaces  *)
(* the value of an Entry that is not empty by fn(value), calling fn once   *)
(* with that value, and leaves an empty Entry empty without calling fn;    *)
(* both return the Entry they were called on, and leave every other Entry  *)
(* as it was.                                                              *)
(***************************************************************************)
C12_Step ==
    /\ last'.op \in {"or_insert", "and_modify"} =>
            /\ last'.ret = last'.on
            /\ Len(heap') = Len(heap)
            /\ \A ref \in 1..Len(heap) : ref # last'.on => heap'[ref] = heap[ref]
    /\ last'.op = "or_insert" =>
            IF is_empty(heap, last'.on)
            THEN Entry_value(heap', last'.on) = last'.args[1]
            ELSE Entry_value(heap', last'.on) = Entry_value(heap, last'.on)
    /\ last'.op = "and_modify" =>
            IF is_not_empty(heap, last'.on)
            THEN /\ Entry_value(heap', last'.on)
                        = Apply(last'.args[1], Entry_value(heap, last'.on))
                 /\ last'.applied = <<Entry_value(heap, last'.on)>>
            ELSE /\ is_empty(heap', last'.on)
                 /\ last'.applied = <<>>

C12_ConditionalUpdates == [][C12_Step]_vars

\* or_insert was called on an Entry that holds a value other than the one
\* given, or and_modify on an empty Entry
C12_Witness ==
    \/ /\ last.op = "or_insert"
       /\ Entry_value(heap, last.on) # last.args[1]
    \/ /\ last.op = "and_modify"
       /\ is_empty(heap, last.on)

(***************************************************************************)
(* The format text as the claims read it: its lines that are not blank,    *)
(* those with exactly one "|" the row-header lines, the others the         *)
(* column-header lines; the fields of a column-header line are what lies   *)
(* between its pipes, the labelled ones those that are neither blank nor   *)
(* "-".                                                                    *)
(***************************************************************************)
Pipes(line) == {i \in 0..(Len(line) - 1) : line[i + 1] = "|"}

IsRowHeaderLine(line) == Cardinality(Pipes(line)) = 1

\* the lines of the given kind, in input order
LinesOf(lines, row_header) ==
    Keep(lines, Ascending({k \in 0..(Len(lines) - 1) :
                               IsRowHeaderLine(lines[k + 1]) = row_header}))

\* every column-header line stands above every row-header line
ColumnHeadersFirst(lines) ==
    \A i, j \in 1..Len(lines) :
        i < j /\ IsRowHeaderLine(lines[i]) => IsRowHeaderLine(lines[j])

\* the fields (from 0) of a column-header line that carry a label
Labelled(line) ==
    Ascending({f \in 0..Cardinality(Pipes(line)) :
                   trim(split(line, "|")[f + 1]) \notin {<<>>, <<"-">>}})

\* the positions of the common column space that lie inside field f of the
\* line: after the pipe that opens it, before the pipe that closes it
Inside(line, f, common) ==
    {u \in common \ Pipes(line) :
        /\ f > 0 => Nth(Pipes(line), f - 1) < u
        /\ f < Cardinality(Pipes(line)) => u < Nth(Pipes(line), f)}

CommonColumns(lines) == UNION {Pipes(lines[k]) : k \in 1..Len(lines)}

\* the line of a row header without its trailing "|" and the whitespace
\* around it
WithoutTrailingPipe(line) ==
    IF line # <<>> /\ line[Len(line)] = "|" THEN SubSeq(line, 1, Len(line) - 1) ELSE line

\* a header line all of whose fields carry a label, but for an empty field
\* before a pipe the line starts with
PlainHeaderLine(line) ==
    \A f \in 0..Cardinality(Pipes(line)) :
        f \in Range(Labelled(line)) \/ (f = 0 /\ line[1] = "|")

\* the column-header lines stand above the row-header lines and are plain
PlainHeaders(lines) ==
    /\ ColumnHeadersFirst(lines)
    /\ \A k \in 1..Len(lines) : IsRowHeaderLine(lines[k]) \/ PlainHeaderLine(lines[k])

SpanSum(ch_row) ==
    LET sum[k \in 0..Len(ch_row)] == IF k = 0 THEN 0 ELSE sum[k - 1] + ch_row[k].span
    IN  sum[Len(ch_row)]

\* the texts of a header row
Texts(ch_row) == Tuple([j \in 1..Len(ch_row) |-> ch_row[j].text])

(***************************************************************************)
(* C13.  Span inference: in the Table from_format returns for a text whose *)
(* column-header lines stand above its row-header lines, the span of every *)
(* header cell is 1 plus the number of positions of the common column      *)
(* space that lie between the cell's own pipes and at which its line has   *)
(* no pipe, whether the line starts with a pipe or not and however many    *)
(* such positions follow one another.                                      *)
(***************************************************************************)
C13_SpanInference ==
    Returned("from_format") /\ PlainHeaders(format_lines(raw)) =>
        LET lines == LinesOf(format_lines(raw), FALSE)
            column_headers == TableView(heap, tm).column_headers
        IN  \A k \in 1..Len(column_headers) :
                \A j \in 1..Len(column_headers[k]) :
                    column_headers[k][j].span
                        = 1 + Cardinality(Inside(lines[k], Labelled(lines[k])[j],
                                                 CommonColumns(lines)))

(***************************************************************************)
(* C14.  Line classification: in the Table from_format returns, the        *)
(* row_headers are the lines with exactly one "|" in input order, each     *)
(* without its trailing "|" and the whitespace around it, and the          *)
(* column_headers have one row for every other line that is not blank, in  *)
(* input order, with the labels of that line.                              *)
(***************************************************************************)
C14_LineClassification ==
    Returned("from_format") =>
        LET row_lines == LinesOf(format_lines(raw), TRUE)
            column_lines == LinesOf(format_lines(raw), FALSE)
            view == TableView(heap, tm)
        IN  /\ view.row_headers =
                   Tuple([k \in 1..Len(row_lines) |->
                       trim(WithoutTrailingPipe(trim(row_lines[k])))])
            /\ Len(view.column_headers) = Len(column_lines)
            /\ \A k \in 1..Len(column_lines) :
                   Texts(view.column_headers[k]) =
                       Tuple([j \in 1..Len(Labelled(column_lines[k])) |->
                           trim(split(column_lines[k], "|")[Labelled(column_lines[k])[j] + 1])])

(***************************************************************************)
(* C15.  The Table from_format returns has a data Matrix whose cells are   *)
(* all empty, of the height len(row_headers), or 1 when there are no row   *)
(* headers, and of the width of the longest row of column_headers, or 1    *)
(* when there are no rows of column headers; so len(row_headers) is 0 or   *)
(* data.height.                                                            *)
(***************************************************************************)
C15_Dimensions ==
    Returned("from_format") =>
        LET view == TableView(heap, tm)
            lengths == {Len(view.column_headers[k]) : k \in 1..Len(view.column_headers)}
        IN  /\ WellFormed(heap, m)
            /\ Matrix_is_empty(heap, m)
            /\ m.height = IF view.row_headers = <<>> THEN 1 ELSE Len(view.row_headers)
            /\ m.width = IF lengths = {} THEN 1 ELSE Greatest(lengths)
            /\ Len(view.row_headers) \in {0, m.height}

\* a Table was made of a line of two column headers above a row-header line
C15_Witness ==
    /\ Returned("from_format")
    /\ ColumnHeadersFirst(format_lines(raw))
    /\ Len(LinesOf(format_lines(raw), TRUE)) = 1
    /\ m.height = 1
    /\ m.width = 2

(***************************************************************************)
(* C16.  In the Table from_format returns for a text with at least one     *)
(* column-header line, the spans of every row of column_headers add up to  *)
(* data.width.                                                             *)
(***************************************************************************)
C16_SpanSums ==
    /\ Returned("from_format")
    /\ LinesOf(format_lines(raw), FALSE) # <<>>
    /\ PlainHeaders(format_lines(raw))
    =>  \A k \in 1..Len(TableView(heap, tm).column_headers) :
            SpanSum(TableView(heap, tm).column_headers[k]) = m.width

(***************************************************************************)
(* Header rows as the claims read them: the label above column x is the    *)
(* text of the cell whose span covers x; a row is run-length encoded when  *)
(* no two neighbouring cells carry the same text.  A Table satisfies the   *)
(* header invariants when it has no row headers or one per row of its data *)
(* and the spans of every header row add up to the width of its data.      *)
(***************************************************************************)
LabelAbove(ch_row, x) ==
    ch_row[CHOOSE k \in 1..Len(ch_row) :
               /\ SpanSum(SubSeq(ch_row, 1, k - 1)) <= x
               /\ x < SpanSum(SubSeq(ch_row, 1, k))].text

RunLengthEncoded(ch_row) ==
    /\ \A k \in 1..Len(ch_row) : ch_row[k].span >= 1
    /\ \A k \in 1..(Len(ch_row) - 1) : ch_row[k].text # ch_row[k + 1].text

HeaderInvariants(H, tab, mat) ==
    /\ Len(TableView(H, tab).row_headers) \in {0, mat.height}
    /\ \A k \in 1..Len(TableView(H, tab).column_headers) :
           SpanSum(TableView(H, tab).column_headers[k]) = mat.width

\* the cells of the result are those of the kept rows and columns of the
\* source, in ascending order
CellsKept(H, rows, columns) ==
    /\ WellFormed(H, d)
    /\ d.height = Cardinality(rows)
    /\ d.width = Cardinality(columns)
    /\ \A y \in 0..(d.height - 1), x \in 0..(d.width - 1) :
           Cell(H, d, y, x) = Cell(H, m, Nth(rows, y), Nth(columns, x))

\* the row headers of the source at the kept rows, in ascending order
RowHeadersKept(source, rows) ==
    IF source = <<>> THEN <<>>
    ELSE Tuple([i \in 1..Cardinality(rows) |-> source[Nth(rows, i - 1) + 1]])

C18_PrunedRowHeaders ==
    Returned("Table.without_empty_rows_and_columns") =>
        /\ CellsKept(heap, KeptRows(heap, m), KeptColumns(heap, m))
        /\ TableView(heap, td).row_headers
               = RowHeadersKept(TableView(heap, tm).row_headers, KeptRows(heap, m))

(***************************************************************************)
(* C19.  td = tm.without_empty_rows_and_columns(): every header row of tm  *)
(* has its header row in td, with exactly one cell per surviving column in *)
(* ascending order of the old columns, its text the label above that old   *)
(* column in tm and its span 1, equal neighbouring labels not merged; the  *)
(* data of td is the pruned Matrix and the caption that of tm.             *)
(***************************************************************************)
C19_PrunedColumnHeaders ==
    Returned("Table.without_empty_rows_and_columns") =>
        LET columns == KeptColumns(heap, m)
            source == TableView(heap, tm)
            result == TableView(heap, td)
        IN  /\ CellsKept(heap, KeptRows(heap, m), columns)
            /\ result.caption = source.caption
            /\ Len(result.column_headers) = Len(source.column_headers)
            /\ \A k \in 1..Len(source.column_headers) :
                   result.column_headers[k] =
                       Tuple([j \in 1..Cardinality(columns) |->
                           [text |-> LabelAbove(source.column_headers[k],
                                                Nth(columns, j - 1)),
                            span |-> 1]])

\* two columns under one header A of span 2 survived: the result has two
\* cells A of span 1
C19_Witness ==
    /\ Returned("Table.without_empty_rows_and_columns")
    /\ TableView(heap, tm).column_headers[1] = <<[text |-> "A", span |-> 2]>>
    /\ TableView(heap, td).column_headers[1]
           = <<[text |-> "A", span |-> 1], [text |-> "A", span |-> 1]>>
    /\ d.width = 2

(***************************************************************************)
(* C20.  The header invariants are preserved by derivation: after any set  *)
(* calls on the data of a Table that satisfies them, the Table that slice  *)
(* (indices within the dimensions) or without_empty_rows_and_columns       *)
(* returns has no row headers or one per row of its data, and the spans of *)
(* every one of its header rows add up to the width of its data, whenever  *)
(* that width is more than 0.                                              *)
(***************************************************************************)
C20_InvariantsPreserved ==
    /\ Returned("Table.slice") \/ Returned("Table.without_empty_rows_and_columns")
    /\ HeaderInvariants(heap, tm, m)
    /\ d.width > 0
    =>  HeaderInvariants(heap, td, d)

\* after a set call on the empty data of a Table of two rows and two
\* columns, the pruned Table has one row, with its header, and one column
C20_Witness ==
    /\ Returned("Table.without_empty_rows_and_columns")
    /\ nsets = 1
    /\ m.height = 2
    /\ m.width = 2
    /\ d.height = 1
    /\ d.width = 1
    /\ Len(TableView(heap, td).row_headers) = 1

(***************************************************************************)
(* C21.  Table.from_format raises a TypeError when its input is not a      *)
(* string (and makes no Table), and for every string input it returns a    *)
(* Table without raising.                                                  *)
(***************************************************************************)
C21_NonStringOnlyFailure ==
    last.op = "from_format" =>
        /\ last.value # "string" => last.threw = TypeError /\ tm = NoTable
        /\ last.value = "string" => last.threw = NoError /\ tm # NoTable

\* from_format of a value that is not a string raised the TypeError
C21_Witness ==
    /\ last.op = "from_format"
    /\ last.value = "object"
    /\ last.threw = TypeError
    /\ tm = NoTable

(***************************************************************************)
(* C22.  A traversal of m.entries() run to its end with no set call since  *)
(* the call of entries() has yielded exactly one item per non-empty cell,  *)
(* none for an empty cell, each with the coordinates and the value of its  *)
(* cell, in row-major order; it is finite (the generator never looks past  *)
(* the last cell); every fresh call starts at the first cell; and          *)
(* m.is_empty() is true exactly when nothing was yielded.                  *)
(***************************************************************************)
\* the number in row-major order of the cell of an item
CellNumber(mat, item) == item.y * mat.width + item.x

C22_Entries ==
    /\ it.next <= m.height * m.width
    /\ last.op = "entries" => it.next = 0 /\ it.yielded = <<>> /\ ~it.done
    /\ (it.on = "m" /\ it.done /\ it.sets = nsets) =>
        /\ \A y \in 0..(m.height - 1), x \in 0..(m.width - 1) :
               Cardinality({i \in 1..Len(it.yielded) :
                               it.yielded[i].y = y /\ it.yielded[i].x = x})
                 = IF Cell(heap, m, y, x) = Empty THEN 0 ELSE 1
        /\ \A i \in 1..Len(it.yielded) :
               /\ it.yielded[i].y \in 0..(m.height - 1)
               /\ it.yielded[i].x \in 0..(m.width - 1)
               /\ it.yielded[i].value = Cell(heap, m, it.yielded[i].y, it.yielded[i].x)
               /\ i > 1 => CellNumber(m, it.yielded[i - 1]) < CellNumber(m, it.yielded[i])
        /\ Matrix_is_empty(heap, m) = (it.yielded = <<>>)

\* a traversal has come to its end on a Matrix of two rows and two columns
\* with cells (0, 1) and (1, 0) set, and has yielded the two in this order
C22_Witness ==
    /\ it.on = "m"
    /\ it.done
    /\ it.sets = nsets
    /\ m.height = 2
    /\ m.width = 2
    /\ it.yielded = <<[y |-> 0, x |-> 1, value |-> "a"],
                      [y |-> 1, x |-> 0, value |-> undefined]>>

(***************************************************************************)
(* C23.  A traversal of m.entries() does not observe the set calls made    *)
(* while it is under way: what it has yielded is the beginning, and once   *)
(* it is done the whole, of the items of the non-empty cells the Matrix    *)
(* had when entries() was called, in row-major order.                      *)
(***************************************************************************)
\* the items of the non-empty cells of an array of rows, in row-major order
ItemsOf(cells) ==
    LET width == IF cells = <<>> THEN 0 ELSE Len(cells[1])
        every == Tuple([k \in 1..(Len(cells) * width) |->
                     [y |-> (k - 1) \div width, x |-> (k - 1) % width,
                      value |-> cells[((k - 1) \div width) + 1][((k - 1) % width) + 1]]])
    IN  SelectSeq(every, LAMBDA item : item.value # Empty)

C23_Snapshot ==
    it.on = "m" =>
        /\ Len(it.yielded) <= Len(ItemsOf(it.snapshot))
        /\ it.yielded = SubSeq(ItemsOf(it.snapshot), 1, Len(it.yielded))
        /\ it.done => it.yielded = ItemsOf(it.snapshot)

(***************************************************************************)
(* C24.  Span conservation.  despan maps every header row to a label row   *)
(* as long as the sum of the row's spans, a cell of span n giving n copies *)
(* of its text, in order; respan maps every non-empty label row to a       *)
(* header row whose spans are at least 1 and add up to the length of the   *)
(* label row, no two neighbouring cells of equal text; and                 *)
(* despan(respan(L)) = L for every list L of non-empty label rows.         *)
(***************************************************************************)
NonEmptyRows(rows) == \A i \in 1..Len(rows) : rows[i] # <<>>

C24_SpanConservation ==
    /\ (last.op = "despan" /\ last.after = "none") =>
        /\ Len(last.ret) = Len(raw)
        /\ \A i \in 1..Len(raw) :
               /\ Len(last.ret[i]) = SpanSum(raw[i])
               /\ \A x \in 1..Len(last.ret[i]) : last.ret[i][x] = LabelAbove(raw[i], x - 1)
    /\ (last.op = "respan" /\ last.after = "none" /\ NonEmptyRows(raw)) =>
        /\ Len(last.ret) = Len(raw)
        /\ \A i \in 1..Len(raw) :
               /\ RunLengthEncoded(last.ret[i])
               /\ SpanSum(last.ret[i]) = Len(raw[i])
    /\ (last.op = "despan" /\ last.after = "respan" /\ NonEmptyRows(raw)) =>
        last.ret = raw

\* despan(respan(L)) has returned L for the label rows A A B and B
C24_Witness ==
    /\ last.op = "despan"
    /\ last.after = "respan"
    /\ raw = <<<<"A", "A", "B">>, <<"B">>>>
    /\ last.ret = raw

(***************************************************************************)
(* C25.  respan(despan(H)) = H for every list H of non-empty header rows   *)
(* with spans of at least 1 in which no two neighbouring cells of a row    *)
(* have the same text; where neighbouring cells of a row do have the same  *)
(* text, respan(despan(H)) has them merged into one cell whose span is the *)
(* sum of theirs.                                                          *)
(***************************************************************************)
\* a header row with every run of neighbouring cells of one text merged into
\* one cell, its span the sum of theirs
Merged(ch_row) ==
    LET merge[k \in 0..Len(ch_row)] ==
            IF k = 0 THEN <<>>
            ELSE IF k > 1 /\ ch_row[k].text = ch_row[k - 1].text
                 THEN [merge[k - 1] EXCEPT ![Len(merge[k - 1])].span = @ + ch_row[k].span]
                 ELSE Append(merge[k - 1], ch_row[k])
    IN  merge[Len(ch_row)]

C25_RespanDespan ==
    (last.op = "respan" /\ last.after = "despan" /\ NonEmptyRows(raw)) =>
        /\ (\A i \in 1..Len(raw) : RunLengthEncoded(raw[i])) => last.ret = raw
        /\ Len(last.ret) = Len(raw)
        /\ \A i \in 1..Len(raw) : last.ret[i] = Merged(raw[i])

\* respan(despan(H)) has returned [A:3], [A:1, B:2] for the header rows
\* [A:1, A:2], [A:1, B:2]
C25_Witness ==
    /\ last.op = "respan"
    /\ last.after = "despan"
    /\ raw = <<<<[text |-> "A", span |-> 1], [text |-> "A", span |-> 2]>>,
               <<[text |-> "A", span |-> 1], [text |-> "B", span |-> 2]>>>>
    /\ last.ret = <<<<[text |-> "A", span |-> 3]>>,
                    <<[text |-> "A", span |-> 1], [text |-> "B", span |-> 2]>>>>

(***************************************************************************)
(* C26.  m = new Matrix(h, w, { fill }) returns a Matrix of height h and   *)
(* width w with h rows of w cells, every cell non-empty: cell (r, c) holds *)
(* fill(c, r) when fill is a function, and fill itself when fill is a      *)
(* value that is no function.                                              *)
(***************************************************************************)
C26_Fill ==
    last.op = "new Matrix(height, width, { fill })" =>
        /\ last.threw = NoError
        /\ m # NoMatrix
        /\ m.height = last.y
        /\ m.width = last.x
        /\ WellFormed(heap, m)
        /\ \A r \in 0..(m.height - 1), c \in 0..(m.width - 1) :
               /\ Cell(heap, m, r, c) # Empty
               /\ Cell(heap, m, r, c) =
                      IF last.value.typeof # "function" THEN last.value.is
                      ELSE IF last.value.is = "coordinates" THEN Label(r, c) ELSE undefined

\* a Matrix of two rows and two columns filled by the function of the
\* coordinates: cell (0, 1) holds what the function gives for column 1, row 0
C26_Witness ==
    /\ last.op = "new Matrix(height, width, { fill })"
    /\ last.value = [typeof |-> "function", is |-> "coordinates"]
    /\ m # NoMatrix
    /\ m.height = 2
    /\ m.width = 2
    /\ Cell(heap, m, 0, 1) = "r0c1"

(***************************************************************************)
(* C27.  Matrix.from_data of a value that is no array (null, undefined, a  *)
(* string, a number) throws a TypeError, not the ValueError it throws for  *)
(* rows of unequal length, and constructs no Matrix.                       *)
(***************************************************************************)
C27_NonArrayTypeError ==
    last.op = "from_data(no array)" =>
        /\ last.threw = TypeError
        /\ m = NoMatrix
        /\ heap = <<>>

\* C27 as the specification has it: the error for a value that is no array
\* is the shape error thrown for rows of unequal length
C27_NonArrayShapeError ==
    last.op = "from_data(no array)" =>
        /\ last.threw.name = "ValueError"
        /\ m = NoMatrix

\* Matrix.from_data(null) has thrown
C27_Witness ==
    /\ last.op = "from_data(no array)"
    /\ last.value = "object"
    /\ last.threw.name # "none"
    /\ m = NoMatrix

(***************************************************************************)
(* C28.  m.as_console_str({ empty_indicator }) with a string indicator     *)
(* ("-" by default): a 0x0 Matrix renders as the empty string; otherwise   *)
(* the text has one line per row and one token per column, the tokens of   *)
(* one size and " | " between them, and the token of cell (r, c), its      *)
(* padding taken off, is the indicator when the cell is empty and the      *)
(* string form of the cell's value when it is not: "0" for 0, "false" for  *)
(* false, "null" for null, "undefined" for undefined, "" for "".           *)
(***************************************************************************)
\* the string form of a value
StringForm(value) ==
    IF value = zero THEN <<"0">>
    ELSE IF value = false THEN <<"f", "a", "l", "s", "e">>
    ELSE IF value = null THEN <<"n", "u", "l", "l">>
    ELSE IF value = undefined THEN <<"u", "n", "d", "e", "f", "i", "n", "e", "d">>
    ELSE IF value = empty_string THEN <<>>
    ELSE <<value>>

\* the token of column c (from 0) of a line whose tokens have the given size
TokenOf(line, c, size) == SubSeq(line, c * (size + 3) + 1, c * (size + 3) + size)

C28_ConsoleStr ==
    (last.op = "as_console_str" /\ last.value.typeof = "string") =>
        /\ (m.height = 0 /\ m.width = 0) => last.ret = <<>>
        /\ m.height > 0 =>
            \E lines \in {split(last.ret, "\n")} :
            /\ Len(lines) = m.height
            /\ \E size \in 0..Len(last.ret) :
               \A r \in 0..(m.height - 1) :
                  /\ Len(lines[r + 1]) = IF m.width = 0 THEN 0
                                         ELSE m.width * size + 3 * (m.width - 1)
                  /\ \A c \in 0..(m.width - 1) :
                        /\ strip({" "}, TRUE, TRUE, TokenOf(lines[r + 1], c, size))
                             = IF Cell(heap, m, r, c) = Empty THEN last.value.text
                               ELSE StringForm(Cell(heap, m, r, c))
                        /\ c > 0 => SubSeq(lines[r + 1], c * (size + 3) - 2, c * (size + 3))
                                      = <<" ", "|", " ">>

\* an empty cell and 0 in one row, false and an empty cell in the next,
\* rendered with the default indicator
C28_Witness ==
    /\ last.op = "as_console_str"
    /\ last.value = Text(<<"-">>)
    /\ m.height = 2
    /\ m.width = 2
    /\ Cell(heap, m, 0, 0) = Empty
    /\ Cell(heap, m, 0, 1) = zero
    /\ Cell(heap, m, 1, 0) = false
    /\ Cell(heap, m, 1, 1) = Empty
    /\ last.ret = <<" ", " ", "-", " ", " ", " ", "|", " ", " ", " ", "0", " ", " ", "\n",
                    "f", "a", "l", "s", "e", " ", "|", " ", " ", " ", "-", " ", " ">>

(***************************************************************************)
(* C29.  A set(r, c, v) that returns changes only cell (r, c): afterwards  *)
(* get(r, c) is a non-empty Entry holding v, also when v is null or        *)
(* undefined, every other cell is empty or holds its value as before, and  *)
(* height and width are what they were; the Matrix has height rows of      *)
(* width cells before and after.                                           *)
(***************************************************************************)
C29_Step ==
    (last'.op = "set" /\ last'.threw.name = "none") =>
        /\ ~is_empty(heap', get(heap', m', last'.y, last'.x).ref)
        /\ get_value(heap', m', last'.y, last'.x).value = last'.value
        /\ \A y \in 0..(m.height - 1), x \in 0..(m.width - 1) :
               (y # last'.y \/ x # last'.x) =>
                   /\ is_empty(heap', get(heap', m', y, x).ref)
                        = is_empty(heap, get(heap, m, y, x).ref)
                   /\ get_value(heap', m', y, x).value = get_value(heap, m, y, x).value
        /\ m'.height = m.height
        /\ m'.width = m.width
        /\ WellFormed(heap, m)
        /\ WellFormed(heap', m')

C29_SetFrame == [][C29_Step]_vars

\* null set next to a cell holding undefined, the two other cells empty
C29_Witness ==
    /\ last.op = "set"
    /\ last.threw.name = "none"
    /\ last.value = null
    /\ last.y = 1
    /\ last.x = 0
    /\ m.height = 2
    /\ m.width = 2
    /\ nsets = 2
    /\ View(heap, m).cells = <<<<Empty, undefined>>, <<null, Empty>>>>

(***************************************************************************)
(* C30.  td = tm.slice(rows, columns) has as many column-header rows as    *)
(* tm for every choice of rows and columns; with an empty columns list     *)
(* each of these header rows is empty.                                     *)
(***************************************************************************)
C30_HeaderRowCount ==
    Returned("Table.slice") =>
        /\ Len(TableView(heap, td).column_headers)
             = Len(TableView(heap, tm).column_headers)
        /\ last.columns = <<>> =>
               \A k \in 1..Len(TableView(heap, td).column_headers) :
                   TableView(heap, td).column_headers[k] = <<>>

\* no column of a Table of two columns under two header rows was kept: the
\* result has no header row
C30_Witness ==
    /\ Returned("Table.slice")
    /\ last.columns = <<>>
    /\ last.rows = <<0>>
    /\ m.width = 2
    /\ Len(TableView(heap, tm).column_headers) = 2
    /\ TableView(heap, td).column_headers = <<>>
    /\ d.height = 1
    /\ d.width = 0

====
